---- MODULE Spec2Model ----
(***************************************************************************)
(* Model of nextcloud-media-bridge: the media reference codec              *)
(* (utils.EncodeMediaID / DecodeMediaID), the media lifecycle handler      *)
(* (handlers.MediaHandler), the storage client and the event dispatcher    *)
(* of main().                                                              *)
(*                                                                         *)
(* Strings are Go strings: finite sequences of bytes (0..255).  A literal  *)
(* is written as the tuple of its bytes with the text in a comment.        *)
(***************************************************************************)
EXTENDS Integers, Sequences, FiniteSets, TLC

VARIABLES
    \* ---- codec harness: one EncodeMediaID / DecodeMediaID exchange
    cPhase,     \* "init" | "encoded" | "tampered" | "decoded" | "presented" | "checked"
    cSecret,    \* secret given to EncodeMediaID
    cRef,       \* MediaRef given to EncodeMediaID
    cToken,     \* the media id on the wire
    cPos,       \* index of the character changed on the way, 0 when none was
    cKey,       \* secret given to DecodeMediaID
    cResult     \* what DecodeMediaID returned: [ok, ref]

codecVars == <<cPhase, cSecret, cRef, cToken, cPos, cKey, cResult>>

VARIABLES
    \* ---- event dispatcher of main()
    dPending,   \* events the appservice has still to put on as.Events
    dPc,        \* dispatcher loop: "recv" | "acquire" | "spawn"
    semaphore,  \* number of slots taken (elements in the buffered channel)
    wStart,     \* workers started, before the decryption step
    wJoin,      \* workers before HandleAutoJoin
    wHandle,    \* workers before HandleMatrixEvent
    wDefer,     \* workers whose body has returned, before the deferred release
    wDone,      \* workers that have finished
    dReleased,  \* number of receives from the semaphore so far
    dLog        \* the last error a worker logged, "none" before the first

dispatchVars == <<dPending, dPc, semaphore, wStart, wJoin, wHandle, wDefer, wDone,
                  dReleased, dLog>>

VARIABLES
    \* ---- the bridge: MediaHandler, NextcloudClient and what they talk to
    config,     \* the loaded configuration: admin deletion, admin token, E2EE
    ncFiles,    \* target storage: stored path |-> content
    dirCache,   \* NextcloudClient.dirCache: the directories known to exist
    roomState,  \* media state events of the rooms: <<room, state key>> |-> record
    hsMedia,    \* the media ids the homeserver still holds
    posted,     \* the replacement messages sent to the rooms
    signedRecs, \* the state records the bridge has signed and written
    obs,        \* what the latest step did (its requests, result and findings)
    steps       \* number of steps taken

bridgeVars == <<config, ncFiles, dirCache, roomState, hsMedia, posted, signedRecs, obs,
                steps>>

VARIABLES
    \* ---- the dispatcher with the events it carries
    inbound,    \* the events the appservice delivers on as.Events, in order
    running     \* positions in inbound of the events held by worker goroutines

deliveryVars == <<inbound, running>>

VARIABLES
    \* ---- calls of the path utilities (package utils)
    pPhase,     \* "raw" | "sanitized" | "once" | "twice"
    pIn,        \* the labels as they come from the event: [template, room, user, file, ts]
    pSan,       \* whether the labels went through SanitizePathSegment
    pLabel,     \* the labels handed to RenderPathTemplate: [room, user, file]
    pFirst,     \* what the first call of RenderPathTemplate returned
    pSecond     \* what the second call with the same inputs returned

pathVars == <<pPhase, pIn, pSan, pLabel, pFirst, pSecond>>

VARIABLES
    \* ---- a call of config.LoadConfig
    lPhase,     \* "text" | "loaded"
    lText,      \* the configuration text, as a sequence of pieces
    lEnv,       \* the environment: name |-> value, for the names that are set
    lOut        \* the text after expandEnvPreserveUnknown

loadVars == <<lPhase, lText, lEnv, lOut>>

VARIABLES
    \* ---- a NextcloudClient used by several goroutines, and its server
    nDirs,      \* the directories the server holds
    nFiles,     \* the files the server holds: path |-> content
    nCache,     \* dirCache: the paths stored in it
    nWorker,    \* the goroutines: where each is in its call, and its locals
    nAnswers,   \* the MKCOL requests answered so far: <<path, status>>
    nCalls      \* number of calls begun

clientVars == <<nDirs, nFiles, nCache, nWorker, nAnswers, nCalls>>

\* the variables of the codec, the dispatcher and the bridge, and those of
\* the calls of single parts
wholeVars == <<codecVars, dispatchVars, bridgeVars, deliveryVars>>
partVars == <<pathVars, loadVars, clientVars>>

vars == <<wholeVars, partVars>>

(***************************************************************************)
(* Byte-string helpers (package strings)                                   *)
(***************************************************************************)
Max2(a, b) == IF a >= b THEN a ELSE b

Min2(a, b) == IF a <= b THEN a ELSE b

\* s[from..] (empty when from is past the end)
Drop(s, from) == SubSeq(s, from, Len(s))

\* strings.HasPrefix, reading s from index i
HasPrefixAt(s, i, lit) ==
    /\ i + Len(lit) - 1 <= Len(s)
    /\ \A k \in 1..Len(lit) : s[i + k - 1] = lit[k]

\* strings.IndexByte(s, b), 1-based; 0 when b does not occur
IndexByte(s, b) ==
    IF \E i \in 1..Len(s) : s[i] = b
    THEN CHOOSE i \in 1..Len(s) : s[i] = b /\ \A j \in 1..(i - 1) : s[j] # b
    ELSE 0

(***************************************************************************)
(* encoding/base64: RawURLEncoding (URL alphabet, no padding)              *)
(***************************************************************************)
\* the character of a 6-bit value: A-Z a-z 0-9 - _
B64Char(v) ==
    IF v < 26 THEN 65 + v
    ELSE IF v < 52 THEN 97 + (v - 26)
    ELSE IF v < 62 THEN 48 + (v - 52)
    ELSE IF v = 62 THEN 45
    ELSE 95

\* the 6-bit value of a character, -1 for a character outside the alphabet
B64Val(c) ==
    IF c >= 65 /\ c <= 90 THEN c - 65
    ELSE IF c >= 97 /\ c <= 122 THEN c - 97 + 26
    ELSE IF c >= 48 /\ c <= 57 THEN c - 48 + 52
    ELSE IF c = 45 THEN 62
    ELSE IF c = 95 THEN 63
    ELSE -1

Pow2(k) == 2 ^ k

\* RawURLEncoding.EncodeToString: output character k holds bits
\* 6(k-1) .. 6k-1 of the input, zero-filled past the end.
Base64Encode(bs) ==
    LET n == Len(bs)
        outLen == (n * 4 + 2) \div 3
        At(i) == IF i <= n THEN bs[i] ELSE 0
    IN  [k \in 1..outLen |->
            LET off == 6 * (k - 1)
                i == (off \div 8) + 1
                w == At(i) * 256 + At(i + 1)
            IN  B64Char((w \div Pow2(10 - (off % 8))) % 64)]

\* RawURLEncoding.DecodeString: CR and LF are skipped, any other character
\* outside the alphabet (also '=') is an error, as is a lone trailing
\* character; unused trailing bits are dropped (the encoding is not Strict).
Base64Decode(cs) ==
    LET keep == SelectSeq(cs, LAMBDA c : c # 10 /\ c # 13)
        n == Len(keep)
        outLen == (n * 6) \div 8
        V(k) == IF k <= n THEN B64Val(keep[k]) ELSE 0
    IN  IF (\E k \in 1..n : B64Val(keep[k]) < 0) \/ n % 4 = 1
        THEN [ok |-> FALSE, bytes |-> <<>>]
        ELSE [ok |-> TRUE,
              bytes |-> [j \in 1..outLen |->
                  LET off == 8 * (j - 1)
                      k == (off \div 6) + 1
                      w == V(k) * 4096 + V(k + 1) * 64 + V(k + 2)
                  IN  (w \div Pow2(10 - (off % 6))) % 256]]

(***************************************************************************)
(* crypto/hmac with sha256                                                 *)
(*                                                                         *)
(* HMAC-SHA256 is a keyed digest with a fixed-width output.  SHA-256 is    *)
(* not computed here: the digest is a pair of polynomial hashes (modulo    *)
(* two 16-bit primes) of the key block followed by the message, four bytes *)
(* wide.  What is kept of HMAC: the digest is a function of the key block  *)
(* and of every byte of the message, and the key block is the key          *)
(* zero-padded to the hash's block size, so keys that differ only in       *)
(* trailing zero bytes give the same digest.                               *)
(***************************************************************************)
DigestPrimes == <<46337, 46327>>

DigestBase == 257

\* <<hash of s[lo..hi], DigestBase^(hi-lo+1)>> modulo p, by halving
RECURSIVE HashRange(_, _, _, _)
HashRange(s, lo, hi, p) ==
    IF lo = hi THEN <<(s[lo] + 1) % p, DigestBase % p>>
    ELSE LET mid == (lo + hi) \div 2
             l == HashRange(s, lo, mid, p)
             r == HashRange(s, mid + 1, hi, p)
         IN  <<(l[1] * r[2] + r[1]) % p, (l[2] * r[2]) % p>>

\* hmac.New: a key shorter than the block size is padded with zero bytes
\* (keys longer than the block size, 64 bytes, are outside the model).
RECURSIVE KeyBlock(_)
KeyBlock(key) ==
    IF Len(key) > 0 /\ key[Len(key)] = 0
    THEN KeyBlock(SubSeq(key, 1, Len(key) - 1))
    ELSE key

\* mac.Write(payload); mac.Sum(nil)
HmacSum(secret, payload) ==
    LET kb == KeyBlock(secret)
        msg == <<Len(kb)>> \o kb \o payload
        h1 == HashRange(msg, 1, Len(msg), DigestPrimes[1])[1]
        h2 == HashRange(msg, 1, Len(msg), DigestPrimes[2])[1]
    IN  <<h1 \div 256, h1 % 256, h2 \div 256, h2 % 256>>

\* SignBytes: base64url of the HMAC of the payload
SignBytes(secret, payload) == Base64Encode(HmacSum(secret, payload))

\* VerifyBytes: hmac.Equal of the two encoded signatures (byte equality)
VerifyBytes(secret, payload, signature) ==
    SignBytes(secret, payload) = signature

(***************************************************************************)
(* unicode/utf8 and encoding/json for strings                              *)
(***************************************************************************)
IsCont(s, i) == i <= Len(s) /\ s[i] >= 128 /\ s[i] <= 191

\* Length in bytes of the UTF-8 encoding that starts at s[i]; 0 when the
\* bytes there are not a valid encoding (utf8.DecodeRune gives RuneError, 1).
RuneLen(s, i) ==
    LET b == s[i]
        b2 == IF i + 1 <= Len(s) THEN s[i + 1] ELSE 0
    IN  IF b < 128 THEN 1
        ELSE IF b >= 194 /\ b <= 223
            THEN (IF IsCont(s, i + 1) THEN 2 ELSE 0)
        ELSE IF b >= 224 /\ b <= 239
            THEN (IF /\ IsCont(s, i + 1) /\ IsCont(s, i + 2)
                     /\ (b = 224 => b2 >= 160)
                     /\ (b = 237 => b2 <= 159)
                  THEN 3 ELSE 0)
        ELSE IF b >= 240 /\ b <= 244
            THEN (IF /\ IsCont(s, i + 1) /\ IsCont(s, i + 2) /\ IsCont(s, i + 3)
                     /\ (b = 240 => b2 >= 144)
                     /\ (b = 244 => b2 <= 143)
                  THEN 4 ELSE 0)
        ELSE 0

\* Whether s[i] is a continuation byte of a valid encoding that starts
\* before it (a leading byte is never one, so decoding always starts there).
Covered(s, i) ==
    \E j \in Max2(1, i - 3)..(i - 1) : RuneLen(s, j) > i - j

\* utf8.ValidString
ValidUTF8(s) == \A i \in 1..Len(s) : Covered(s, i) \/ RuneLen(s, i) > 0

\* the concatenation of piece(lo), ..., piece(hi), by halving
RECURSIVE ConcatRange(_, _, _)
ConcatRange(piece(_), lo, hi) ==
    IF lo > hi THEN <<>>
    ELSE IF lo = hi THEN piece(lo)
    ELSE LET mid == (lo + hi) \div 2
         IN  ConcatRange(piece, lo, mid) \o ConcatRange(piece, mid + 1, hi)

HexDigits == <<48, 49, 50, 51, 52, 53, 54, 55, 56, 57, 97, 98, 99, 100, 101, 102>>  \* 0123456789abcdef

HexVal(c) ==
    IF c >= 48 /\ c <= 57 THEN c - 48
    ELSE IF c >= 97 /\ c <= 102 THEN c - 97 + 10
    ELSE IF c >= 65 /\ c <= 70 THEN c - 65 + 10
    ELSE -1

ReplacementChar == <<239, 191, 189>>   \* U+FFFD in UTF-8

\* json.Marshal of one ASCII byte inside a string (HTML escaping is on).
\* Backspace and form feed are outside the model's alphabets.
EscapeAscii(b) ==
    IF b = 34 THEN <<92, 34>>                 \* \"
    ELSE IF b = 92 THEN <<92, 92>>            \* \\
    ELSE IF b = 10 THEN <<92, 110>>           \* \n
    ELSE IF b = 13 THEN <<92, 114>>           \* \r
    ELSE IF b = 9 THEN <<92, 116>>            \* \t
    ELSE IF b < 32 \/ b = 60 \/ b = 62 \/ b = 38
        THEN <<92, 117, 48, 48, HexDigits[(b \div 16) + 1], HexDigits[(b % 16) + 1]>>
    ELSE <<b>>

\* json.Marshal of the character that starts at s[i] (nothing for a byte
\* inside a character): invalid UTF-8 is written as the escape of U+FFFD,
\* U+2028 and U+2029 as their escapes.
EscapeAt(s, i) ==
    LET b == s[i]
        r == RuneLen(s, i)
    IN  IF Covered(s, i) THEN <<>>
        ELSE IF b < 128 THEN EscapeAscii(b)
        ELSE IF r = 0 THEN <<92, 117, 102, 102, 102, 100>>
        ELSE IF r = 3 /\ b = 226 /\ s[i + 1] = 128 /\ s[i + 2] \in {168, 169}
            THEN <<92, 117, 50, 48, 50, s[i + 2] - 112>>
        ELSE SubSeq(s, i, i + r - 1)

\* a string of printable ASCII without '"', '\', '<', '>' and '&' is written
\* as it is
NeedsNoEscape(s) ==
    \A i \in 1..Len(s) : s[i] >= 32 /\ s[i] < 127 /\ s[i] \notin {34, 92, 60, 62, 38}

EscapeString(s) ==
    IF NeedsNoEscape(s) THEN s
    ELSE ConcatRange(LAMBDA i : EscapeAt(s, i), 1, Len(s))

JSONString(s) == <<34>> \o EscapeString(s) \o <<34>>

\* UTF-8 encoding of a code point of the basic plane; a surrogate half
\* decodes as U+FFFD.
EncodeRune(cp) ==
    IF cp < 128 THEN <<cp>>
    ELSE IF cp < 2048 THEN <<192 + (cp \div 64), 128 + (cp % 64)>>
    ELSE IF cp >= 55296 /\ cp <= 57343 THEN ReplacementChar
    ELSE <<224 + (cp \div 4096), 128 + ((cp \div 64) % 64), 128 + (cp % 64)>>

\* The byte a one-letter escape stands for, -1 when there is no such escape
UnescapeLetter(e) ==
    IF e = 34 \/ e = 92 \/ e = 47 THEN e
    ELSE IF e = 98 THEN 8
    ELSE IF e = 102 THEN 12
    ELSE IF e = 110 THEN 10
    ELSE IF e = 114 THEN 13
    ELSE IF e = 116 THEN 9
    ELSE -1

\* The number of backslashes that stand directly before s[i], counted back
\* to s[start].
BackslashRun(s, start, i) ==
    CHOOSE d \in 0..(i - start) :
        /\ d = i - start \/ s[i - 1 - d] # 92
        /\ \A k \in 1..d : s[i - k] = 92

\* s[i] is not itself escaped by a backslash before it
Unescaped(s, start, i) == BackslashRun(s, start, i) % 2 = 0

\* s[i] is a backslash that starts an escape sequence
EscapeStart(s, start, i) == i >= start /\ s[i] = 92 /\ Unescaped(s, start, i)

\* s[i] belongs to an escape sequence that starts before it: the letter after
\* the backslash, or one of the four hex digits of a \u escape
InEscape(s, start, i) ==
    \/ EscapeStart(s, start, i - 1)
    \/ \E k \in 2..5 : EscapeStart(s, start, i - k) /\ s[i - k + 1] = 117

\* What the text at s[i] of a string literal decodes to: [ok, val].  The
\* literal's content is s[start..last].
UnescapeAt(s, start, last, i) ==
    LET b == s[i] IN
    IF InEscape(s, start, i) THEN [ok |-> TRUE, val |-> <<>>]
    ELSE IF b = 92 THEN
        IF i + 1 > last THEN [ok |-> FALSE, val |-> <<>>]
        ELSE IF s[i + 1] = 117 THEN
            IF i + 5 <= last /\ \A k \in 2..5 : HexVal(s[i + k]) >= 0
            THEN [ok |-> TRUE,
                  val |-> EncodeRune(HexVal(s[i + 2]) * 4096 + HexVal(s[i + 3]) * 256
                                     + HexVal(s[i + 4]) * 16 + HexVal(s[i + 5]))]
            ELSE [ok |-> FALSE, val |-> <<>>]
        ELSE IF UnescapeLetter(s[i + 1]) >= 0
            THEN [ok |-> TRUE, val |-> <<UnescapeLetter(s[i + 1])>>]
        ELSE [ok |-> FALSE, val |-> <<>>]
    ELSE IF b < 32 THEN [ok |-> FALSE, val |-> <<>>]
    ELSE IF b < 128 THEN [ok |-> TRUE, val |-> <<b>>]
    ELSE IF Covered(s, i) THEN [ok |-> TRUE, val |-> <<>>]
    ELSE IF RuneLen(s, i) = 0 THEN [ok |-> TRUE, val |-> ReplacementChar]
    ELSE [ok |-> TRUE, val |-> SubSeq(s, i, Min2(last, i + RuneLen(s, i) - 1))]

\* json.Unmarshal of a string literal whose opening quote is at s[start - 1]:
\* [ok, val, next], next being the index after the closing quote.  (Escaped
\* surrogate pairs, which json.Marshal never writes, are not combined.)  A
\* literal of printable ASCII without a backslash stands for itself.
ParseString(s, start) ==
    LET closers == {i \in start..Len(s) : s[i] = 34 /\ Unescaped(s, start, i)}
        bad == [ok |-> FALSE, val |-> <<>>, next |-> start]
    IN  IF closers = {} THEN bad
        ELSE LET close == CHOOSE i \in closers : \A j \in closers : i <= j
                 last == close - 1
             IN  IF \A i \in start..last : s[i] >= 32 /\ s[i] < 127 /\ s[i] # 92
                 THEN [ok |-> TRUE, val |-> SubSeq(s, start, last), next |-> close + 1]
                 ELSE IF \E i \in start..last : ~UnescapeAt(s, start, last, i).ok THEN bad
                 ELSE [ok |-> TRUE,
                       val |-> ConcatRange(LAMBDA i : UnescapeAt(s, start, last, i).val,
                                           start, last),
                       next |-> close + 1]

(***************************************************************************)
(* utils.MediaRef and its JSON form                                        *)
(***************************************************************************)
MediaRef(path, fileName, mimeType) ==
    [Path |-> path, FileName |-> fileName, MimeType |-> mimeType]

EmptyRef == MediaRef(<<>>, <<>>, <<>>)

KeyPath == <<123, 34, 112, 97, 116, 104, 34, 58>>                              \* {"path":
KeyFileName == <<44, 34, 102, 105, 108, 101, 95, 110, 97, 109, 101, 34, 58>>   \* ,"file_name":
KeyMimeType == <<44, 34, 109, 105, 109, 101, 95, 116, 121, 112, 101, 34, 58>>  \* ,"mime_type":

\* json.Marshal(ref): the fields in declaration order, none omitted
MarshalRef(ref) ==
    KeyPath \o JSONString(ref.Path) \o KeyFileName \o JSONString(ref.FileName)
        \o KeyMimeType \o JSONString(ref.MimeType) \o <<125>>

\* json.Unmarshal(payload, &ref) for the objects MarshalRef writes (the three
\* keys in this order, no white space); any other text is a parse error.
UnmarshalRef(bs) ==
    LET bad == [ok |-> FALSE, ref |-> EmptyRef]
        i1 == Len(KeyPath) + 1
    IN  IF ~(HasPrefixAt(bs, 1, KeyPath) /\ HasPrefixAt(bs, i1, <<34>>)) THEN bad
        ELSE LET p == ParseString(bs, i1 + 1) IN
        IF ~(p.ok /\ HasPrefixAt(bs, p.next, KeyFileName)
                  /\ HasPrefixAt(bs, p.next + Len(KeyFileName), <<34>>)) THEN bad
        ELSE LET f == ParseString(bs, p.next + Len(KeyFileName) + 1) IN
        IF ~(f.ok /\ HasPrefixAt(bs, f.next, KeyMimeType)
                  /\ HasPrefixAt(bs, f.next + Len(KeyMimeType), <<34>>)) THEN bad
        ELSE LET m == ParseString(bs, f.next + Len(KeyMimeType) + 1) IN
        IF ~(m.ok /\ m.next = Len(bs) /\ bs[m.next] = 125) THEN bad
        ELSE [ok |-> TRUE, ref |-> MediaRef(p.val, f.val, m.val)]

(***************************************************************************)
(* utils.EncodeMediaID / DecodeMediaID                                     *)
(***************************************************************************)
Underscore == <<95>>   \* "_"

\* a signature that does not depend on the secret
signMediaID_NoKey(secret, payload) == Base64Encode(HmacSum(<<>>, payload))

signMediaID(secret, payload) == Base64Encode(HmacSum(secret, payload))

EncodeMediaID(secret, ref) ==
    LET encoded == Base64Encode(MarshalRef(ref))
    IN  encoded \o Underscore \o signMediaID(secret, encoded)

\* The error return is ErrInvalidMediaID in every failing branch: ok = FALSE.
InvalidMediaID == [ok |-> FALSE, ref |-> EmptyRef]

\* a decoder that parses the payload first and checks the signature only
\* of a payload that has no path
DecodeMediaID_ParseFirst(secret, mediaID) ==
    LET cut == IndexByte(mediaID, 95)
    IN  IF cut = 0 THEN InvalidMediaID
        ELSE LET part0 == SubSeq(mediaID, 1, cut - 1)
                 part1 == Drop(mediaID, cut + 1)
                 payload == Base64Decode(part0)
             IN  IF ~payload.ok THEN InvalidMediaID
                 ELSE LET parsed == UnmarshalRef(payload.bytes) IN
                      IF ~parsed.ok THEN InvalidMediaID
                      ELSE IF parsed.ref.Path = <<>> \/ signMediaID(secret, part0) = part1
                           THEN [ok |-> signMediaID(secret, part0) = part1, ref |-> parsed.ref]
                           ELSE InvalidMediaID

\* a decoder that compares only the first character of the signature
DecodeMediaID_WeakCompare(secret, mediaID) ==
    LET cut == IndexByte(mediaID, 95)
    IN  IF cut = 0 THEN InvalidMediaID
        ELSE LET part0 == SubSeq(mediaID, 1, cut - 1)
                 part1 == Drop(mediaID, cut + 1)
             IN  IF part1 = <<>> \/ signMediaID(secret, part0)[1] # part1[1] THEN InvalidMediaID
                 ELSE LET payload == Base64Decode(part0) IN
                      IF ~payload.ok THEN InvalidMediaID
                      ELSE LET parsed == UnmarshalRef(payload.bytes) IN
                           IF ~parsed.ok THEN InvalidMediaID
                           ELSE IF parsed.ref.Path = <<>> THEN InvalidMediaID
                           ELSE [ok |-> TRUE, ref |-> parsed.ref]

DecodeMediaID(secret, mediaID) ==
    LET cut == IndexByte(mediaID, 95)      \* strings.SplitN(mediaID, "_", 2)
    IN  IF cut = 0 THEN InvalidMediaID
        ELSE LET part0 == SubSeq(mediaID, 1, cut - 1)
                 part1 == Drop(mediaID, cut + 1)
             IN  IF signMediaID(secret, part0) # part1 THEN InvalidMediaID
                 ELSE LET payload == Base64Decode(part0) IN
                      IF ~payload.ok THEN InvalidMediaID
                      ELSE LET parsed == UnmarshalRef(payload.bytes) IN
                           IF ~parsed.ok THEN InvalidMediaID
                           ELSE IF parsed.ref.Path = <<>> THEN InvalidMediaID
                           ELSE [ok |-> TRUE, ref |-> parsed.ref]

(***************************************************************************)
(* Codec harness: a reference is encoded under one secret, the media id    *)
(* may be changed in one character on the way, and it is decoded under a   *)
(* secret.                                                                 *)
(***************************************************************************)
MaxPathLen == 3

\* "a", "?", and a byte that is no UTF-8
PathAlphabet == {97, 63, 255}

RECURSIVE StringsUpTo(_, _)
StringsUpTo(alphabet, n) ==
    IF n = 0 THEN {<<>>}
    ELSE LET shorter == StringsUpTo(alphabet, n - 1)
         IN  shorter \cup {Append(s, c) : s \in {t \in shorter : Len(t) = n - 1}, c \in alphabet}

\* (FileName, MimeType): empty; with characters json.Marshal escapes and a
\* two-byte character
NamePool == { <<<<>>, <<>>>>,
              <<<<34, 60, 92, 195, 169>>, <<97, 47, 98>>>> }   \* "<\ e-acute, a/b

RefPool == {MediaRef(p, nm[1], nm[2]) : p \in StringsUpTo(PathAlphabet, MaxPathLen), nm \in NamePool}

\* "k", "k" followed by a zero byte, "x"
SecretPool == {<<107>>, <<107, 0>>, <<120>>}

\* what a changed character becomes: "A", "_", "."
TamperChars == {65, 95, 46}

NoResult == [ok |-> FALSE, ref |-> EmptyRef]

\* the parts of the system that a specification leaves at rest
CodecIdle ==
    /\ cPhase = "idle" /\ cSecret = <<>> /\ cRef = EmptyRef /\ cToken = <<>>
    /\ cPos = 0 /\ cKey = <<>> /\ cResult = NoResult

DispatchIdle ==
    /\ dPending = 0 /\ dPc = "idle" /\ semaphore = 0
    /\ wStart = 0 /\ wJoin = 0 /\ wHandle = 0 /\ wDefer = 0 /\ wDone = 0
    /\ dReleased = 0 /\ dLog = "none"
    /\ inbound = <<>> /\ running = {}

PathIdle ==
    /\ pPhase = "idle" /\ pIn = <<>> /\ pSan = FALSE /\ pLabel = <<>>
    /\ pFirst = <<>> /\ pSecond = <<>>

LoadIdle ==
    /\ lPhase = "idle" /\ lText = <<>> /\ lEnv = <<>> /\ lOut = <<>>

ClientIdle ==
    /\ nDirs = {} /\ nFiles = <<>> /\ nCache = {} /\ nWorker = <<>>
    /\ nAnswers = {} /\ nCalls = 0

PartsIdle == PathIdle /\ LoadIdle /\ ClientIdle

BridgeIdle ==
    /\ config = [adminEnabled |-> FALSE, adminToken |-> FALSE, crypto |-> FALSE]
    /\ ncFiles = <<>> /\ dirCache = {} /\ roomState = <<>> /\ hsMedia = {}
    /\ posted = {} /\ signedRecs = {} /\ steps = 0 /\ obs = [op |-> "idle"]

CodecInit ==
    /\ cPhase = "init"
    /\ cSecret \in SecretPool
    /\ cRef \in RefPool
    /\ cToken = <<>>
    /\ cPos = 0
    /\ cKey = <<>>
    /\ cResult = NoResult
    /\ DispatchIdle /\ BridgeIdle /\ PartsIdle

Encode ==
    /\ cPhase = "init"
    /\ cToken' = EncodeMediaID(cSecret, cRef)
    /\ cPhase' = "encoded"
    /\ UNCHANGED <<cSecret, cRef, cPos, cKey, cResult, dispatchVars, bridgeVars, deliveryVars, partVars>>

\* one character of the media id is replaced by another one
Tamper ==
    /\ cPhase = "encoded"
    /\ \E i \in 1..Len(cToken), c \in TamperChars :
        /\ c # cToken[i]
        /\ cToken' = [cToken EXCEPT ![i] = c]
        /\ cPos' = i
    /\ cPhase' = "tampered"
    /\ UNCHANGED <<cSecret, cRef, cKey, cResult, dispatchVars, bridgeVars, deliveryVars, partVars>>

\* the media id is decoded: an unchanged one under any secret, a changed
\* one under the secret it was signed with
Decode ==
    /\ cPhase \in {"encoded", "tampered"}
    /\ \E s \in SecretPool :
        /\ cPhase = "tampered" => s = cSecret
        /\ cKey' = s
        /\ cResult' = DecodeMediaID(s, cToken)
    /\ cPhase' = "decoded"
    /\ UNCHANGED <<cSecret, cRef, cToken, cPos, dispatchVars, bridgeVars, deliveryVars, partVars>>

\* the parts before the separator of the media ids a caller presents: ".",
\* which is no base64; the encodings of "a", which is no JSON, of a
\* reference without a path and of a reference with the path "a"
PresentedPayloads ==
    { <<46>>,
      Base64Encode(<<97>>),
      Base64Encode(MarshalRef(EmptyRef)),
      Base64Encode(MarshalRef(MediaRef(<<97>>, <<>>, <<>>))) }

\* the media ids a caller presents: each of the parts alone, signed with the
\* secret, and with the signature of another text
PresentedPool(secret) ==
    PresentedPayloads
    \cup {p \o Underscore \o signMediaID(secret, p) : p \in PresentedPayloads}
    \cup {p \o Underscore \o signMediaID(secret, Append(p, 65)) : p \in PresentedPayloads}

\* a caller presents a media id that EncodeMediaID did not return
Present ==
    /\ cPhase = "init"
    /\ cToken' \in PresentedPool(cSecret)
    /\ cPhase' = "presented"
    /\ UNCHANGED <<cSecret, cRef, cPos, cKey, cResult, dispatchVars, bridgeVars, deliveryVars, partVars>>

\* the presented media id is decoded under the secret
DecodePresented ==
    /\ cPhase = "presented"
    /\ cKey' = cSecret
    /\ cResult' = DecodeMediaID(cSecret, cToken)
    /\ cPhase' = "checked"
    /\ UNCHANGED <<cSecret, cRef, cToken, cPos, dispatchVars, bridgeVars, deliveryVars, partVars>>

CodecNext == Encode \/ Tamper \/ Decode \/ Present \/ DecodePresented

SpecCodec == CodecInit /\ [][CodecNext]_vars

\* Position of the separator that EncodeMediaID wrote into the media id
SeparatorPos == Len(Base64Encode(MarshalRef(cRef))) + 1

\* C1 (as claimed): a media id decoded unchanged under the secret it was
\* encoded with gives back the reference, for every reference with a
\* non-empty path.  Stated here for references whose strings are valid
\* UTF-8, which is what json.Marshal keeps byte for byte.
C1_RoundTrip ==
    (/\ cPhase = "decoded" /\ cPos = 0 /\ cKey = cSecret
     /\ cRef.Path # <<>>
     /\ ValidUTF8(cRef.Path) /\ ValidUTF8(cRef.FileName) /\ ValidUTF8(cRef.MimeType))
    => cResult = [ok |-> TRUE, ref |-> cRef]

C5_OneCharacterChangedFails ==
    (cPhase = "decoded" /\ cPos # 0 /\ cKey = cSecret) => cResult = InvalidMediaID

\* C5 witness: the media id of a reference that decodes when unchanged had
\* a character of its signature half changed and was refused.
C5_Witness ==
    /\ cPhase = "decoded" /\ cPos > SeparatorPos /\ cKey = cSecret
    /\ cRef = MediaRef(<<97>>, <<>>, <<>>)
    /\ cResult = InvalidMediaID

(***************************************************************************)
(* String functions of the Go library that the path code uses (package     *)
(* strings, package path, fmt's %d and %02d).                              *)
(***************************************************************************)
Slash == 47       \* '/'
Dot == 46         \* '.'

\* the byte sequence of a one-character string
Chr(b) == <<b>>

\* strings.HasPrefix, strings.HasSuffix
HasPrefix(s, lit) == HasPrefixAt(s, 1, lit)

HasSuffix(s, lit) == Len(lit) <= Len(s) /\ HasPrefixAt(s, Len(s) - Len(lit) + 1, lit)

\* strings.TrimPrefix, strings.TrimSuffix
TrimPrefix(s, lit) == IF HasPrefix(s, lit) THEN Drop(s, Len(lit) + 1) ELSE s

TrimSuffix(s, lit) == IF HasSuffix(s, lit) THEN SubSeq(s, 1, Len(s) - Len(lit)) ELSE s

\* strings.TrimLeft(s, "/") and strings.TrimRight(s, "/")
TrimLeftSlash(s) ==
    LET keep == {i \in 1..Len(s) : s[i] # Slash}
    IN  IF keep = {} THEN <<>>
        ELSE Drop(s, CHOOSE i \in keep : \A j \in keep : i <= j)

TrimRightSlash(s) ==
    LET keep == {i \in 1..Len(s) : s[i] # Slash}
    IN  IF keep = {} THEN <<>>
        ELSE SubSeq(s, 1, CHOOSE i \in keep : \A j \in keep : i >= j)

\* strings.TrimSpace, for the white space of ASCII
IsSpace(b) == b \in {9, 10, 11, 12, 13, 32}

TrimSpace(s) ==
    LET keep == {i \in 1..Len(s) : ~IsSpace(s[i])}
    IN  IF keep = {} THEN <<>>
        ELSE SubSeq(s, CHOOSE i \in keep : \A j \in keep : i <= j,
                       CHOOSE i \in keep : \A j \in keep : i >= j)

\* strings.ReplaceAll(s, old, new) for a non-empty old: the matches are taken
\* from the left and do not overlap
RECURSIVE ReplaceFrom(_, _, _, _)
ReplaceFrom(s, i, old, new) ==
    IF i > Len(s) THEN <<>>
    ELSE IF HasPrefixAt(s, i, old) THEN new \o ReplaceFrom(s, i + Len(old), old, new)
    ELSE Chr(s[i]) \o ReplaceFrom(s, i + 1, old, new)

ReplaceAll(s, old, new) == ReplaceFrom(s, 1, old, new)

\* strings.Split(s, "/"): the pieces between the separators, empty ones kept
RECURSIVE SplitFrom(_, _)
SplitFrom(s, b) ==
    LET cut == IndexByte(s, b)
    IN  IF cut = 0 THEN <<s>>
        ELSE <<SubSeq(s, 1, cut - 1)>> \o SplitFrom(Drop(s, cut + 1), b)

Split(s, b) == SplitFrom(s, b)

\* strings.Join(parts, "/")
RECURSIVE JoinSlash(_)
JoinSlash(parts) ==
    IF parts = <<>> THEN <<>>
    ELSE IF Len(parts) = 1 THEN parts[1]
    ELSE parts[1] \o Chr(Slash) \o JoinSlash(Tail(parts))

\* fmt.Sprintf("%d", n) for n >= 0, and fmt.Sprintf("%02d", n)
RECURSIVE Itoa(_)
Itoa(n) == IF n < 10 THEN Chr(48 + n) ELSE Itoa(n \div 10) \o Chr(48 + (n % 10))

Itoa02(n) == IF n < 10 THEN Chr(48) \o Itoa(n) ELSE Itoa(n)

\* path.Clean: the components of the path are taken from the left; an empty
\* one and "." are dropped, ".." takes away the component before it (at the
\* root it is dropped, at the start of a relative path it is kept)
RECURSIVE CleanParts(_, _, _)
CleanParts(parts, rooted, acc) ==
    IF parts = <<>> THEN acc
    ELSE LET c == Head(parts)
             rest == Tail(parts)
         IN  IF c = <<>> \/ c = <<Dot>> THEN CleanParts(rest, rooted, acc)
             ELSE IF c = <<Dot, Dot>>
                  THEN IF acc # <<>> /\ acc[Len(acc)] # <<Dot, Dot>>
                       THEN CleanParts(rest, rooted, SubSeq(acc, 1, Len(acc) - 1))
                       ELSE IF rooted THEN CleanParts(rest, rooted, acc)
                       ELSE CleanParts(rest, rooted, Append(acc, c))
             ELSE CleanParts(rest, rooted, Append(acc, c))

PathClean(p) ==
    IF p = <<>> THEN <<Dot>>
    ELSE LET rooted == p[1] = Slash
             body == JoinSlash(CleanParts(Split(p, Slash), rooted, <<>>))
         IN  IF rooted THEN Chr(Slash) \o body
             ELSE IF body = <<>> THEN <<Dot>> ELSE body

\* index of the last '/' of p, 0 when there is none
LastSlash(p) ==
    LET at == {i \in 1..Len(p) : p[i] = Slash}
    IN  IF at = {} THEN 0 ELSE CHOOSE i \in at : \A j \in at : i >= j

\* path.Dir: everything up to the last slash, cleaned
PathDir(p) == PathClean(SubSeq(p, 1, LastSlash(p)))

\* path.Base: the last element, after the trailing slashes are taken away
PathBase(p) ==
    IF p = <<>> THEN <<Dot>>
    ELSE LET t == TrimRightSlash(p)
         IN  IF t = <<>> THEN <<Slash>> ELSE Drop(t, LastSlash(t) + 1)

\* path.Ext: from the last dot of the last element on, empty without a dot
PathExt(p) ==
    LET dots == {i \in (LastSlash(p) + 1)..Len(p) : p[i] = Dot}
    IN  IF dots = {} THEN <<>>
        ELSE Drop(p, CHOOSE i \in dots : \A j \in dots : i >= j)

\* path.Join(dir, base) for two elements
PathJoin(dir, base) ==
    IF dir = <<>> /\ base = <<>> THEN <<>>
    ELSE IF dir = <<>> THEN PathClean(base)
    ELSE IF base = <<>> THEN PathClean(dir)
    ELSE PathClean(dir \o Chr(Slash) \o base)

(***************************************************************************)
(* Path rendering (utils/path_utils.go) and the numbered names of the      *)
(* placement step.                                                         *)
(***************************************************************************)
\* the placeholders of a path template, numbered 1..6
Placeholders == << <<36, 123, 121, 101, 97, 114, 125>>,       \* ${year}
                   <<36, 123, 109, 111, 110, 116, 104, 125>>,     \* ${month}
                   <<36, 123, 100, 97, 121, 125>>,        \* ${day}
                   <<36, 123, 114, 111, 111, 109, 125>>,       \* ${room}
                   <<36, 123, 117, 115, 101, 114, 125>>,       \* ${user}
                   <<36, 123, 102, 105, 108, 101, 125>> >>     \* ${file}

\* the zero value of time.Time is 1 January of year 1
IsZero(t) == t.year = 1 /\ t.month = 1 /\ t.day = 1

\* the replacements map of RenderPathTemplate, indexed like Placeholders
Replacements(roomName, user, filename, t) ==
    <<Itoa(t.year), Itoa02(t.month), Itoa02(t.day), roomName, user, filename>>

\* time.Now() at the moment of a call
Now == [year |-> 2026, month |-> 11, day |-> 1]

\* the loop over the replacements map.  The iteration order of a Go map is
\* not specified: each round replaces one of the placeholders not yet
\* visited, and the results of all the orders are collected
RECURSIVE RangeReplace(_, _, _)
RangeReplace(result, values, remaining) ==
    IF remaining = {} THEN {result}
    ELSE UNION {RangeReplace(ReplaceAll(result, Placeholders[k], values[k]), values,
                             remaining \ {k}) : k \in remaining}

\* the paths RenderPathTemplate can return for one input; now is the
\* current time, used for a zero event time
RenderPathTemplate(template, roomName, user, filename, eventTime, now) ==
    UNION { {PathClean(r) : r \in RangeReplace(template, values, 1..Len(Placeholders))} :
            values \in {Replacements(roomName, user, filename,
                                     IF IsZero(eventTime) THEN now ELSE eventTime)} }

\* SanitizePathSegment without the replacement of ".."
SanitizePathSegment_KeepsDots(value) ==
    LET v1 == TrimSpace(value)
        v2 == ReplaceAll(v1, <<Slash>>, <<95>>)
        v3 == ReplaceAll(v2, <<92>>, <<95>>)
        v4 == ReplaceAll(v3, <<58>>, <<95>>)
    IN  IF v4 = <<>> THEN <<117, 110, 107, 110, 111, 119, 110>>
        ELSE v4

SanitizePathSegment(value) ==
    LET v1 == TrimSpace(value)
        v2 == ReplaceAll(v1, <<Slash>>, <<95>>)
        v3 == ReplaceAll(v2, <<92>>, <<95>>)
        v4 == ReplaceAll(v3, <<58>>, <<95>>)
        v5 == ReplaceAll(v4, <<Dot, Dot>>, <<95>>)
    IN  IF v5 = <<>> THEN <<117, 110, 107, 110, 111, 119, 110>>   \* "unknown"
        ELSE v5

MatrixUserLocalpart(userID) ==
    LET u == TrimPrefix(TrimSpace(userID), <<64>>)
        cut == IndexByte(u, 58)                 \* strings.SplitN(userID, ":", 2)
        part0 == IF cut = 0 THEN u ELSE SubSeq(u, 1, cut - 1)
    IN  IF part0 # <<>> THEN part0 ELSE u

\* getRoomName: the room id without its leading "!"
getRoomName(roomID) == TrimPrefix(roomID, <<33>>)

\* addCounterSuffix: <<new path, new base name>> for name_<counter>.ext
addCounterSuffix(remotePath, counter) ==
    LET dir == PathDir(remotePath)
        base == PathBase(remotePath)
        ext == PathExt(base)
        name == TrimSuffix(base, ext)
        newBase == name \o <<95>> \o Itoa(counter) \o ext
        joined == PathJoin(dir, newBase)
        newPath == IF HasPrefix(remotePath, <<Slash>>) /\ ~HasPrefix(joined, <<Slash>>)
                   THEN <<Slash>> \o joined ELSE joined
    IN  IF dir = <<Dot>> THEN <<newBase, newBase>> ELSE <<newPath, newBase>>

(***************************************************************************)
(* The bridge: configuration, the events it is given, the homeserver's     *)
(* media store and the records it keeps in room state.                     *)
(***************************************************************************)
mediaIDSecret == <<107>>                 \* "k"
ServerName == <<112>>                    \* cfg.MediaProxy.ServerName: "p"
Homeserver == <<104>>                    \* the homeserver's name: "h"
RoomID == <<33, 114>>                    \* the room with a path template: "!r"
OtherRoomID == <<33, 111>>              \* a room without one: "!o"
BotMXID == <<64, 98, 58, 104>>         \* "@b:h"
UserMXID == <<64, 117, 58, 104>>       \* "@u:h"

\* cfg.Matrix.RoomPathTemplate: "!r" |-> "/m/${user}/${file}"
RoomPathTemplate == [room \in {RoomID} |-> <<47, 109, 47, 36, 123, 117, 115, 101, 114, 125, 47, 36, 123, 102, 105, 108, 101, 125>>]

\* the configurations the bridge is run with: admin deletion enabled, an
\* admin access token set, a crypto helper present
ConfigPool ==
    { [adminEnabled |-> TRUE,  adminToken |-> TRUE,  crypto |-> TRUE],
      [adminEnabled |-> TRUE,  adminToken |-> FALSE, crypto |-> FALSE],
      [adminEnabled |-> FALSE, adminToken |-> FALSE, crypto |-> TRUE] }

\* attachment contents: an identity and a length in bytes; the contents of
\* length 0 are all the same one
Content(id, len) == [id |-> id, len |-> len]

NoContent == Content(-1, -1)

\* the media store of the homeserver: media id |-> content and the
\* Content-Type it is served with
SourceMedia ==
    (<<49>> :> [content |-> Content(1, 2), ctype |-> <<116, 47, 120>>]) @@
    (<<50>> :> [content |-> Content(2, 2), ctype |-> <<116, 47, 120>>]) @@
    (<<51>> :> [content |-> Content(3, 3), ctype |-> <<>>]) @@
    (<<48>> :> [content |-> Content(0, 0), ctype |-> <<116, 47, 120>>])

\* a content URI (id.ContentURI) and its text, mxc://<homeserver>/<file id>
ContentURI(hs, fileID) == [kind |-> "ok", Homeserver |-> hs, FileID |-> fileID]

EmptyURI == [kind |-> "empty", Homeserver |-> <<>>, FileID |-> <<>>]

\* a URL text that ContentURIString.Parse rejects
InvalidURI == [kind |-> "invalid", Homeserver |-> <<>>, FileID |-> <<>>]

ContentURIString(uri) ==
    IF uri.kind = "ok" THEN <<109, 120, 99, 58, 47, 47>> \o uri.Homeserver \o <<Slash>> \o uri.FileID
    ELSE <<>>

\* the dates of event timestamps: time.UnixMilli(evt.Timestamp).UTC()
EventDate == [year |-> 2026, month |-> 3, day |-> 9]

\* an event of the appservice stream, with the fields the handlers read
Event(type, eid, room, sender, msgtype, relType, hasFile, url, filename, infoMime, redacts) ==
    [Type |-> type, ID |-> eid, RoomID |-> room, Sender |-> sender,
     MsgType |-> msgtype, RelType |-> relType, HasFile |-> hasFile, URL |-> url,
     FileName |-> filename, InfoMimeType |-> infoMime, Redacts |-> redacts,
     Timestamp |-> EventDate]

\* a media message of the user in the configured room
MediaMessage(eid, fileID, filename, infoMime) ==
    Event("m.room.message", eid, RoomID, UserMXID, "m.file", "", FALSE,
          ContentURI(Homeserver, fileID), filename, infoMime, <<>>)

\* a redaction of the user
Redaction(eid, room, redacts) ==
    Event("m.room.redaction", eid, room, UserMXID, "", "", FALSE, EmptyURI, <<>>, <<>>,
          redacts)

Msg1 == MediaMessage(<<36, 49>>, <<49>>, <<97, 46, 116>>, <<>>)
Msg2 == MediaMessage(<<36, 50>>, <<50>>, <<97, 46, 116>>, <<105, 47, 112>>)
Msg3 == MediaMessage(<<36, 51>>, <<51>>, <<97, 46, 116>>, <<>>)
Msg4 == MediaMessage(<<36, 52>>, <<48>>, <<97, 46, 116>>, <<>>)
Msg5 == MediaMessage(<<36, 53>>, <<49>>, <<97, 63>>, <<>>)

(***************************************************************************)
(* NextcloudClient: the requests it sends and what the storage answers.    *)
(* A request is recorded with the party it goes to, its method and its     *)
(* target.                                                                 *)
(***************************************************************************)
Req(to, method, target) == [to |-> to, m |-> method, target |-> target]

\* the statuses of the answers of the storage; NoResponse stands for a
\* request that failed in transport
StatusOK == 200
StatusCreated == 201
StatusNoContent == 204
StatusNotFound == 404
StatusMethodNotAllowed == 405
StatusConflict == 409
StatusInternalServerError == 500
NoResponse == 0

\* buildURL: the resource a remote path names.  Leading slashes are cut;
\* the segments are percent-encoded for the URL and decoded by the server.
StorageKey(remotePath) == TrimLeftSlash(remotePath)

\* the loop of EnsureDirectories with CreateDirectory inlined: a cached
\* directory costs no request; a failed MKCOL ends the loop with an error
\* and leaves the cache as it is
RECURSIVE EnsureFrom(_, _, _, _, _, _)
EnsureFrom(dirs, k, current, cache, reqs, failing) ==
    IF k > Len(dirs) THEN [ok |-> TRUE, cache |-> cache, reqs |-> reqs]
    ELSE IF dirs[k] = <<Dot>> \/ dirs[k] = <<>>
         THEN EnsureFrom(dirs, k + 1, current, cache, reqs, failing)
    ELSE LET next == IF current = <<>> THEN dirs[k]
                     ELSE current \o <<Slash>> \o dirs[k]
             sent == Append(reqs, Req("storage", "MKCOL", StorageKey(next)))
         IN  IF next \in cache THEN EnsureFrom(dirs, k + 1, next, cache, reqs, failing)
             ELSE IF failing THEN [ok |-> FALSE, cache |-> cache, reqs |-> sent]
             ELSE EnsureFrom(dirs, k + 1, next, cache \cup {next}, sent, failing)

EnsureDirectories(remotePath, cache, failing) ==
    EnsureFrom(Split(PathDir(TrimLeftSlash(remotePath)), Slash), 1, <<>>, cache, <<>>,
               failing)

\* Stat: a HEAD request; the storage reports the length of a stored file
Stat(files, remotePath) ==
    LET key == StorageKey(remotePath)
    IN  IF key \in DOMAIN files THEN [exists |-> TRUE, size |-> files[key].len]
        ELSE [exists |-> FALSE, size |-> 0]

\* UploadReader: a successful PUT stores the content under the path
UploadReader(files, remotePath, content) ==
    [k \in DOMAIN files \cup {StorageKey(remotePath)} |->
        IF k = StorageKey(remotePath) THEN content ELSE files[k]]

\* the answer of the storage to DELETE: no content for a file that was
\* there, not found for none; a failure of the server or of the transport
\* when the surroundings fail
DeleteAnswer(files, remotePath, fail) ==
    IF fail = "transport" THEN NoResponse
    ELSE IF fail = "delete" THEN StatusInternalServerError
    ELSE IF StorageKey(remotePath) \in DOMAIN files THEN StatusNoContent
    ELSE StatusNotFound

\* a DeleteFile that takes not found for an error
DeleteFileFails_NotFound(status) ==
    status = NoResponse \/ (status # StatusOK /\ status # StatusNoContent)

\* DeleteFile returns an error: the request failed, or the status is not
\* not-found and is neither OK nor no-content
DeleteFileFails(status) ==
    \/ status = NoResponse
    \/ status # StatusNotFound /\ status # StatusOK /\ status # StatusNoContent

\* DeleteFile: a successful DELETE removes the file; none there is a 404,
\* which is a success as well
DeleteFile(files, remotePath) ==
    [k \in DOMAIN files \ {StorageKey(remotePath)} |-> files[k]]

(***************************************************************************)
(* The Signed State Record (mediaState) and its signature.                 *)
(***************************************************************************)
MediaState(path, filename, mxc, signature) ==
    [Path |-> path, FileName |-> filename, MXC |-> mxc, Signature |-> signature]

\* json.Marshal(state): filename and mxc are left out when empty
MarshalState(state) ==
    <<123, 34, 112, 97, 116, 104, 34, 58>> \o JSONString(state.Path)
      \o (IF state.FileName = <<>> THEN <<>>
          ELSE <<44, 34, 102, 105, 108, 101, 110, 97, 109, 101, 34, 58>> \o JSONString(state.FileName))
      \o (IF state.MXC = <<>> THEN <<>>
          ELSE <<44, 34, 109, 120, 99, 34, 58>> \o JSONString(state.MXC))
      \o <<44, 34, 115, 105, 103, 110, 97, 116, 117, 114, 101, 34, 58>> \o JSONString(state.Signature) \o <<125>>

signMediaState(state) ==
    SignBytes(mediaIDSecret, MarshalState([state EXCEPT !.Signature = <<>>]))

\* a record is taken as genuine when it carries a signature
verifyMediaState_AnySignature(state) == state.Signature # <<>>

verifyMediaState(state) ==
    IF state.Signature = <<>> THEN FALSE
    ELSE VerifyBytes(mediaIDSecret, MarshalState([state EXCEPT !.Signature = <<>>]),
                     state.Signature)

\* a string as it comes back from the homeserver: written as JSON by the
\* sender and parsed by the reader
WireString(str) == ParseString(JSONString(str), 2).val

\* the record a state event holds after SendStateEvent put it on the wire
WireState(state) ==
    MediaState(WireString(state.Path), WireString(state.FileName), WireString(state.MXC),
               WireString(state.Signature))

(***************************************************************************)
(* The events the bridge is given, and the values that depend on them      *)
(* alone.                                                                  *)
(***************************************************************************)
\* number of steps of a run
MaxSteps == 3

\* messages that HandleMatrixEvent passes over: of the bot, of a room
\* without template, not media, an edit, without URL, with an unparsable
\* URL, and an event that is no message
PassedOver ==
    { [Msg1 EXCEPT !.Sender = BotMXID], [Msg1 EXCEPT !.RoomID = OtherRoomID],
      [Msg1 EXCEPT !.MsgType = "m.text"], [Msg1 EXCEPT !.RelType = "m.replace"],
      [Msg1 EXCEPT !.URL = EmptyURI], [Msg1 EXCEPT !.URL = InvalidURI],
      [Msg1 EXCEPT !.Type = "m.room.member"] }

\* an encrypted attachment
EncMsg == [Msg3 EXCEPT !.ID = <<36, 54>>, !.HasFile = TRUE, !.InfoMimeType = <<105, 47, 112>>]

\* a message whose URL already points at the media proxy, with a media id
\* of the bridge and with another text
ProxiedMsg ==
    [Msg1 EXCEPT !.URL = ContentURI(ServerName,
        EncodeMediaID(mediaIDSecret, MediaRef(<<109, 47, 117, 47, 97, 46, 116>>, <<97, 46, 116>>, <<116, 47, 120>>)))]
ForeignMsg == [Msg1 EXCEPT !.URL = ContentURI(ServerName, <<122, 122>>)]

MessagePool == {Msg1, Msg2, Msg3, Msg4, Msg5, EncMsg, ProxiedMsg, ForeignMsg} \cup PassedOver

\* redactions of the user, and one sent by the bridge's own identity
RedactionPool ==
    { Redaction(<<36, 55>>, RoomID, <<36, 49>>), Redaction(<<36, 55>>, RoomID, <<36, 51>>),
      Redaction(<<36, 55>>, RoomID, <<36, 57>>), Redaction(<<36, 55>>, RoomID, <<>>),
      Redaction(<<36, 55>>, OtherRoomID, <<36, 49>>),
      [Redaction(<<36, 56>>, RoomID, <<36, 49>>) EXCEPT !.Sender = BotMXID] }

EventPool == MessagePool \cup RedactionPool

NoEvent == Event("", <<>>, <<>>, <<>>, "", "", FALSE, EmptyURI, <<>>, <<>>, <<>>)

\* the inputs of RenderPathTemplate for a message, as HandleMatrixEvent
\* prepares them
RenderInput(evt, filename) ==
    <<RoomPathTemplate[evt.RoomID],
      SanitizePathSegment(getRoomName(evt.RoomID)),
      SanitizePathSegment(MatrixUserLocalpart(evt.Sender)),
      SanitizePathSegment(filename),
      evt.Timestamp>>

\* the rendered paths of the inputs that occur, computed once
RenderTable ==
    [in \in {RenderInput(e, e.FileName) :
                 e \in {m \in MessagePool : m.RoomID \in DOMAIN RoomPathTemplate}} |->
        RenderPathTemplate(in[1], in[2], in[3], in[4], in[5], Now)]

\* the handled messages' pairs of final path and final filename: the
\* rendered path with the name of the message, and the numbered candidates
FinalPairs ==
    UNION { {<<p, e.FileName>>} \cup {addCounterSuffix(p, i) : i \in 0..MaxSteps} :
            e \in {m \in MessagePool : m.RoomID \in DOMAIN RoomPathTemplate},
            p \in UNION {RenderTable[RenderInput(m, m.FileName)] :
                         m \in {m \in MessagePool : m.RoomID \in DOMAIN RoomPathTemplate}} }

\* the MIME types a message resolves to
MimeTypes ==
    {<<>>} \cup {m.InfoMimeType : m \in MessagePool}
           \cup {SourceMedia[f].ctype : f \in DOMAIN SourceMedia}

\* the content URI of the media id of a final path without its leading
\* slash, a final filename and a resolved MIME type
MintURI(finalPath, finalFilename, mimeType) ==
    ContentURI(ServerName,
        EncodeMediaID(mediaIDSecret,
                      MediaRef(TrimLeftSlash(finalPath), finalFilename, mimeType)))

\* storeMediaState: the record of the final path, the final filename and
\* the new content URI, signed, as the homeserver holds it
storeMediaState(finalPath, finalFilename, mxc) ==
    WireState(MediaState(finalPath, finalFilename, ContentURIString(mxc),
                         signMediaState(MediaState(finalPath, finalFilename,
                                                   ContentURIString(mxc), <<>>))))

\* the content URI and the state record of every final path, final filename
\* and MIME type that occur, computed once
Minted ==
    [k \in {<<f[1], f[2], m>> : f \in FinalPairs, m \in MimeTypes} |->
        [mxc |-> MintURI(k[1], k[2], k[3]),
         record |-> storeMediaState(k[1], k[2], MintURI(k[1], k[2], k[3]))]]

(***************************************************************************)
(* MediaHandler.HandleMatrixEvent.  A call is given the event and the      *)
(* point, if any, at which its surroundings fail; its outcome holds the    *)
(* return value, the requests sent in their order and the state it leaves. *)
(***************************************************************************)
\* the points at which a call can be made to fail from outside
FailPoints == {"none", "download", "decrypt", "mkcol", "stat", "statcand", "upload",
               "send", "state", "admin", "fetch", "delete", "transport"}

\* the message types for which MsgType.IsMedia() holds
MediaTypes == {"m.image", "m.video", "m.audio", "m.file"}

\* the highest counter the placement tries for a numbered name
maxCounter == 1000

\* the outcome of a call that changed nothing; fired tells whether the
\* failure asked for did happen
Outcome(err, fired, reqs) ==
    [err |-> err, fired |-> fired, reqs |-> reqs,
     files |-> ncFiles, dirs |-> dirCache, state |-> roomState, msgs |-> posted,
     media |-> hsMedia, signed |-> {},
     fetched |-> <<>>, rendered |-> <<>>, content |-> NoContent, found |-> NoContent,
     placed |-> FALSE, uploaded |-> FALSE, finalPath |-> <<>>, finalFilename |-> <<>>,
     mimeType |-> <<>>, mxc |-> EmptyURI, rewritten |-> FALSE, served |-> <<>>,
     status |-> NoResponse]

\* the smallest counter in i..maxCounter whose numbered path is absent, 0
\* when there is none
RECURSIVE FirstFree(_, _, _)
FirstFree(files, remotePath, i) ==
    IF i > maxCounter THEN 0
    ELSE IF ~Stat(files, addCounterSuffix(remotePath, i)[1]).exists THEN i
    ELSE FirstFree(files, remotePath, i + 1)

\* the HEAD requests of the candidates 1..n
CandidateStats(remotePath, n) ==
    [i \in 1..n |-> Req("storage", "HEAD", StorageKey(addCounterSuffix(remotePath, i)[1]))]

\* a replacement that is a new message with the pointer of the event, and
\* no edit
EditContent_NewMessage(evt, finalFilename, mxc, mimeType, size) ==
    [Sender |-> evt.Sender, RoomID |-> evt.RoomID, MsgType |-> evt.MsgType,
     RelType |-> "", RelatesTo |-> evt.ID, FileName |-> evt.FileName,
     URL |-> evt.URL, MimeType |-> mimeType, Size |-> size]

\* the replacement message of an event: an edit of it, sent as its sender
EditContent(evt, finalFilename, mxc, mimeType, size) ==
    [Sender |-> evt.Sender, RoomID |-> evt.RoomID, MsgType |-> evt.MsgType,
     RelType |-> "m.replace", RelatesTo |-> evt.ID, FileName |-> finalFilename,
     URL |-> mxc, MimeType |-> mimeType, Size |-> size]

\* deleteFromStateEvent without the signature check
deleteFromStateEvent_NoVerify(roomID, eventID, fail) ==
    LET key == <<roomID, eventID>>
        fetch == Req("matrix", "GET state", eventID)
        state == roomState[key]
        delete == Req("storage", "DELETE", StorageKey(state.Path))
    IN  IF fail = "fetch" \/ key \notin DOMAIN roomState
        THEN Outcome("nil", fail = "fetch", <<fetch>>)
        ELSE IF state.Path = <<>> \/ state.Signature = <<>>
        THEN [Outcome("nil", FALSE, <<fetch>>) EXCEPT !.fetched = <<state>>]
        ELSE IF DeleteFileFails(DeleteAnswer(ncFiles, state.Path, fail))
        THEN [Outcome("delete", TRUE, <<fetch, delete>>) EXCEPT
                 !.fetched = <<state>>, !.status = DeleteAnswer(ncFiles, state.Path, fail)]
        ELSE [Outcome("nil", FALSE, <<fetch, delete>>) EXCEPT
                 !.fetched = <<state>>, !.files = DeleteFile(ncFiles, state.Path),
                 !.status = DeleteAnswer(ncFiles, state.Path, fail)]

deleteFromStateEvent(roomID, eventID, fail) ==
    LET key == <<roomID, eventID>>
        fetch == Req("matrix", "GET state", eventID)
        state == roomState[key]
        delete == Req("storage", "DELETE", StorageKey(state.Path))
    IN  IF fail = "fetch" \/ key \notin DOMAIN roomState
        THEN Outcome("nil", fail = "fetch", <<fetch>>)
        ELSE IF state.Path = <<>>
        THEN [Outcome("nil", FALSE, <<fetch>>) EXCEPT !.fetched = <<state>>]
        ELSE IF state.Signature = <<>>
        THEN [Outcome("nil", FALSE, <<fetch>>) EXCEPT !.fetched = <<state>>]
        ELSE IF ~verifyMediaState(state)
        THEN [Outcome("nil", FALSE, <<fetch>>) EXCEPT !.fetched = <<state>>]
        ELSE IF DeleteFileFails(DeleteAnswer(ncFiles, state.Path, fail))
        THEN [Outcome("delete", TRUE, <<fetch, delete>>) EXCEPT
                 !.fetched = <<state>>, !.status = DeleteAnswer(ncFiles, state.Path, fail)]
        ELSE [Outcome("nil", FALSE, <<fetch, delete>>) EXCEPT
                 !.fetched = <<state>>, !.files = DeleteFile(ncFiles, state.Path),
                 !.status = DeleteAnswer(ncFiles, state.Path, fail)]

handleRedactionEvent(evt, fail) ==
    IF evt.Redacts = <<>> THEN Outcome("nil", FALSE, <<>>)
    ELSE deleteFromStateEvent(evt.RoomID, evt.Redacts, fail)

\* the existing object is reused when the size the storage reports equals
\* the length of the content and that length is positive
Reuse(c) == c.stat.exists /\ c.mediaData.len > 0 /\ c.stat.size = c.mediaData.len

\* no stored file is taken for a collision
Collision_Never(c) == FALSE

\* the rendered path is taken by something else
Collision(c) == c.stat.exists /\ ~Reuse(c)

\* the requests up to the HEAD of the rendered path
StatRequests(c) ==
    <<c.download>> \o c.ensured.reqs
        \o <<Req("storage", "HEAD", StorageKey(c.nextcloudPath))>>

\* a handler that logs a failed storage step and returns nil
Got_ErrorSwallowed(c, err, fired, reqs) ==
    [Outcome("nil", fired, reqs) EXCEPT
        !.rendered = c.nextcloudPath, !.content = c.mediaData, !.mimeType = c.mimeType,
        !.dirs = c.ensured.cache]

\* the outcome of a call that failed once the content was in hand
Got(c, err, fired, reqs) ==
    [Outcome(err, fired, reqs) EXCEPT
        !.rendered = c.nextcloudPath, !.content = c.mediaData, !.mimeType = c.mimeType,
        !.dirs = c.ensured.cache]

\* a handler that, when the edit cannot be sent, posts the new pointer in a
\* message of the bot
SendFailed_BotMessage(c, placed, reqs) ==
    [placed EXCEPT
        !.fired = TRUE,
        !.reqs = Append(reqs, Req("matrix", "PUT message", <<>>)),
        !.msgs = posted \cup
                 {[EditContent(c.evt, placed.finalFilename, placed.mxc, c.mimeType,
                               c.mediaData.len) EXCEPT
                      !.Sender = BotMXID, !.RelType = "", !.RelatesTo = <<>>]}]

\* a handler that, when the edit cannot be sent, goes on to write the state
\* record of the event
SendFailed_StateWritten(c, placed, reqs) ==
    [placed EXCEPT
        !.fired = TRUE,
        !.reqs = Append(reqs, Req("matrix", "PUT state", c.evt.ID)),
        !.state = [k \in DOMAIN roomState \cup {<<c.evt.RoomID, c.evt.ID>>} |->
                      IF k = <<c.evt.RoomID, c.evt.ID>>
                      THEN Minted[<<placed.finalPath, placed.finalFilename, c.mimeType>>].record
                      ELSE roomState[k]],
        !.signed = {Minted[<<placed.finalPath, placed.finalFilename, c.mimeType>>].record}]

\* intent.SendMessageEvent fails: the error is logged and HandleMatrixEvent
\* returns nil; reqs are the requests sent up to the failed one
SendFailed(c, placed, reqs) == [placed EXCEPT !.fired = TRUE, !.reqs = reqs]

\* a cleanup that asks for the deletion without an admin access token
CleanupRequested_NoToken == config.adminEnabled

\* the deletion of the source media is requested: admin deletion is enabled
\* (HandleMatrixEvent) and an admin access token is set (deleteLocalMedia)
CleanupRequested == config.adminEnabled /\ config.adminToken

\* the end of HandleMatrixEvent: the upload, the edit of the message, the
\* state event and the cleanup, for each point of failure.  final is the
\* pair of final path and final filename, cands the HEAD requests of the
\* numbered candidates, mxc the new content URI, record the state record
\* as the homeserver holds it.
Finish(c, final, cands, mxc, record) ==
    LET reqs3 == StatRequests(c) \o cands
        put == Req("storage", "PUT", StorageKey(final[1]))
        reqs4 == IF Reuse(c) THEN reqs3 ELSE Append(reqs3, put)
        reqs5 == Append(reqs4, Req("matrix", "PUT message", c.evt.ID))
        reqs6 == Append(reqs5, Req("matrix", "PUT state", c.evt.ID))
        cleanup == CleanupRequested
        admin == Req("admin", "DELETE",
                     c.evt.URL.Homeserver \o <<Slash>> \o c.evt.URL.FileID)
        key == <<c.evt.RoomID, c.evt.ID>>
        placed == [Got(c, "nil", FALSE, <<>>) EXCEPT
                      !.found = IF c.stat.exists THEN ncFiles[StorageKey(c.nextcloudPath)]
                                ELSE NoContent,
                      !.placed = TRUE, !.uploaded = ~Reuse(c),
                      !.finalPath = final[1], !.finalFilename = final[2],
                      !.files = IF Reuse(c) THEN ncFiles
                                ELSE UploadReader(ncFiles, final[1], c.mediaData),
                      !.mxc = mxc]
    IN  [fail \in FailPoints |->
            IF fail = "download" THEN Outcome("download", TRUE, <<c.download>>)
            ELSE IF c.evt.HasFile /\ fail = "decrypt"
                 THEN Outcome("decrypt", TRUE, <<c.download>>)
            ELSE IF fail = "mkcol" /\ ~c.failed.ok
                 THEN [Got(c, "mkdir", TRUE, <<c.download>> \o c.failed.reqs) EXCEPT
                          !.dirs = c.failed.cache]
            ELSE IF fail = "stat" THEN Got(c, "stat", TRUE, StatRequests(c))
            ELSE IF Collision(c) /\ fail = "statcand"
                 THEN Got(c, "stat", TRUE, StatRequests(c) \o <<cands[1]>>)
            ELSE IF Collision(c) /\ (c.free = 0 \/ final[1] = c.nextcloudPath)
                 THEN Got(c, "nofree", FALSE, reqs3)
            ELSE IF ~Reuse(c) /\ fail = "upload" THEN Got(c, "upload", TRUE, reqs4)
            ELSE IF fail = "send"
                 THEN SendFailed(c, placed, reqs5)
            ELSE [placed EXCEPT
                     !.fired = fail = "state" \/ (fail = "admin" /\ cleanup),
                     !.reqs = IF cleanup THEN Append(reqs6, admin) ELSE reqs6,
                     !.rewritten = TRUE,
                     !.msgs = posted \cup {EditContent(c.evt, final[2], mxc, c.mimeType,
                                                       c.mediaData.len)},
                     !.state = IF fail = "state" THEN roomState
                               ELSE [k \in DOMAIN roomState \cup {key} |->
                                        IF k = key THEN record ELSE roomState[k]],
                     !.signed = IF fail = "state" THEN {} ELSE {record},
                     !.media = IF cleanup /\ fail # "admin" THEN hsMedia \ {c.evt.URL.FileID}
                               ELSE hsMedia]]

\* the placement: the rendered path, or on a collision the first numbered
\* candidate that is absent; then the media id and the state record of the
\* final path
Mint(c, final, cands) ==
    Finish(c, final, cands, Minted[<<final[1], final[2], c.mimeType>>].mxc,
           Minted[<<final[1], final[2], c.mimeType>>].record)

Place(c) ==
    Mint(c,
         IF Collision(c) THEN addCounterSuffix(c.nextcloudPath, c.free)
         ELSE <<c.nextcloudPath, c.filename>>,
         IF Collision(c)
         THEN CandidateStats(c.nextcloudPath, IF c.free = 0 THEN maxCounter ELSE c.free)
         ELSE <<>>)

\* a handler that takes an edit for a message like any other
PassesOver_Edits(evt) ==
    \/ evt.Type # "m.room.message"
    \/ evt.Sender = BotMXID
    \/ evt.RoomID \notin DOMAIN RoomPathTemplate
    \/ evt.MsgType \notin MediaTypes

\* the events HandleMatrixEvent returns nil for before it looks at the
\* content: no message, of the bridge itself, in a room without path
\* template, no media message, an edit
PassesOver(evt) ==
    \/ evt.Type # "m.room.message"
    \/ evt.Sender = BotMXID
    \/ evt.RoomID \notin DOMAIN RoomPathTemplate
    \/ evt.MsgType \notin MediaTypes
    \/ evt.RelType = "m.replace"

\* a handler that takes every pointer to the media proxy for one of its own
AlreadyProxied_ByOrigin(evt) ==
    ~evt.HasFile /\ evt.URL.Homeserver = ServerName

\* "Skip already-proxied media": the URL of an unencrypted message names
\* the media proxy and its file id is a media id of the bridge
AlreadyProxied(evt) ==
    /\ ~evt.HasFile
    /\ evt.URL.Homeserver = ServerName
    /\ DecodeMediaID(mediaIDSecret, evt.URL.FileID).ok

\* a bridge that goes on with an encrypted attachment without a crypto
\* helper
SkipsEncrypted_Never(evt) == FALSE

\* msg.File != nil and h.cryptoHelper == nil: the encrypted attachment is
\* skipped
SkipsEncrypted(evt) == evt.HasFile /\ ~config.crypto

\* the part of HandleMatrixEvent for message events; filename is the name
\* msg.GetFileName() gave or the generated one, nextcloudPath the path the
\* template rendered to.  The result gives the outcome of the call for each
\* point at which its surroundings can fail.
HandleMessage(evt, filename, nextcloudPath) ==
    IF \/ PassesOver(evt)
       \/ SkipsEncrypted(evt)
       \/ ~evt.HasFile /\ evt.URL.kind = "empty"
    THEN [fail \in FailPoints |-> Outcome("nil", FALSE, <<>>)]
    ELSE IF evt.URL.kind # "ok"
    THEN [fail \in FailPoints |-> Outcome("parse", FALSE, <<>>)]
    ELSE IF AlreadyProxied(evt)
    THEN [fail \in FailPoints |-> Outcome("nil", FALSE, <<>>)]
    ELSE IF ~(evt.URL.Homeserver = Homeserver /\ evt.URL.FileID \in hsMedia)
    THEN [fail \in FailPoints |->
             Outcome("download", fail = "download",
                     <<Req("matrix", "GET media", ContentURIString(evt.URL))>>)]
    ELSE Place([evt |-> evt, filename |-> filename, nextcloudPath |-> nextcloudPath,
                download |-> Req("matrix", "GET media", ContentURIString(evt.URL)),
                mediaData |-> SourceMedia[evt.URL.FileID].content,
                mimeType |-> IF evt.InfoMimeType # <<>> THEN evt.InfoMimeType
                             ELSE IF evt.HasFile THEN <<>>
                             ELSE SourceMedia[evt.URL.FileID].ctype,
                ensured |-> EnsureDirectories(nextcloudPath, dirCache, FALSE),
                failed |-> EnsureDirectories(nextcloudPath, dirCache, TRUE),
                stat |-> Stat(ncFiles, nextcloudPath),
                free |-> FirstFree(ncFiles, nextcloudPath, 1)])

\* a resolver that answers with the reference's MIME type only
Resolve_NoFallback(ref, fail, served) ==
    IF ~ref.ok THEN Outcome("invalid", FALSE, <<>>)
    ELSE IF fail = "download" \/ StorageKey(ref.ref.Path) \notin DOMAIN ncFiles
    THEN Outcome("download", fail = "download",
                 <<Req("storage", "GET", StorageKey(ref.ref.Path))>>)
    ELSE [Outcome("nil", FALSE, <<Req("storage", "GET", StorageKey(ref.ref.Path))>>) EXCEPT
             !.content = ncFiles[StorageKey(ref.ref.Path)],
             !.served = served,
             !.mimeType = ref.ref.MimeType]

\* the file a decoded media id names is downloaded from the storage;
\* served is the Content-Type header of the storage's response, and the
\* answer's content type is the reference's, or served when it has none
Resolve(ref, fail, served) ==
    IF ~ref.ok THEN Outcome("invalid", FALSE, <<>>)
    ELSE IF fail = "download" \/ StorageKey(ref.ref.Path) \notin DOMAIN ncFiles
    THEN Outcome("download", fail = "download",
                 <<Req("storage", "GET", StorageKey(ref.ref.Path))>>)
    ELSE [Outcome("nil", FALSE, <<Req("storage", "GET", StorageKey(ref.ref.Path))>>) EXCEPT
             !.content = ncFiles[StorageKey(ref.ref.Path)],
             !.served = served,
             !.mimeType = IF ref.ref.MimeType = <<>> THEN served ELSE ref.ref.MimeType]

\* the media proxy's resolver (NewMediaProxy): the media id is decoded and
\* the file of the decoded path is downloaded from the storage
GetMedia(mediaID, fail, served) ==
    Resolve(DecodeMediaID(mediaIDSecret, mediaID), fail, served)

\* media ids that were not minted: without separator ("zz"), with a wrong
\* signature, and signed under the secret but not base64 ("!!"), not JSON
\* ("x") or with an empty path
UnmintedIDs ==
    { <<122, 122>>,
      Base64Encode(MarshalRef(MediaRef(<<109, 47, 117, 47, 97, 46, 116>>, <<>>, <<>>)))
          \o Underscore \o <<65, 65>> } \cup
    { payload \o Underscore \o signMediaID(mediaIDSecret, payload) :
        payload \in { <<33, 33>>, Base64Encode(<<120>>),
                      Base64Encode(MarshalRef(MediaRef(<<>>, <<97>>, <<>>))) } }

\* the Content-Type header of a storage response: none, or "a/o"
ServedTypes == {<<>>, <<97, 47, 111>>}

(***************************************************************************)
(* The bridge as a state machine: events are handled one at a time, the    *)
(* media proxy answers fetches, and a room member who can write room state *)
(* but does not hold the secret changes stored records.                    *)
(***************************************************************************)
\* what a step leaves for inspection
Observe(op, evt, fail, out) ==
    [op |-> op, evt |-> evt, fail |-> fail, err |-> out.err, reqs |-> out.reqs,
     fetched |-> out.fetched, rendered |-> out.rendered, content |-> out.content,
     found |-> out.found, placed |-> out.placed, uploaded |-> out.uploaded,
     finalPath |-> out.finalPath, finalFilename |-> out.finalFilename,
     mimeType |-> out.mimeType, mxc |-> out.mxc, rewritten |-> out.rewritten,
     served |-> out.served, status |-> out.status]

BridgeInit ==
    /\ config \in ConfigPool
    /\ ncFiles = <<>>
    /\ dirCache = {}
    /\ roomState = <<>>
    /\ hsMedia = DOMAIN SourceMedia
    /\ posted = {}
    /\ signedRecs = {}
    /\ steps = 0
    /\ obs = [op |-> "none"]
    /\ CodecIdle /\ DispatchIdle /\ PartsIdle

\* a step takes the state an outcome describes
Take(op, evt, fail, out) ==
    /\ fail = "none" \/ out.fired
    /\ ncFiles' = out.files
    /\ dirCache' = out.dirs
    /\ roomState' = out.state
    /\ hsMedia' = out.media
    /\ posted' = out.msgs
    /\ signedRecs' = signedRecs \cup out.signed
    /\ obs' = Observe(op, evt, fail, out)
    /\ steps' = steps + 1
    /\ UNCHANGED <<config, codecVars, partVars>>

\* HandleMatrixEvent on one event, from beginning to end
Process(evt, fails) ==
    IF evt.Type = "m.room.redaction"
    THEN \E fail \in fails :
            \E out \in {handleRedactionEvent(evt, fail)} : Take("event", evt, fail, out)
    ELSE \E nextcloudPath \in
              IF ~PassesOver(evt)
              THEN RenderTable[RenderInput(evt, evt.FileName)] ELSE {<<>>} :
            \E outcomes \in {HandleMessage(evt, evt.FileName, nextcloudPath)} :
               \E fail \in fails : Take("event", evt, fail, outcomes[fail])

\* one event is handled from beginning to end
HandleMatrixEvent ==
    /\ steps < MaxSteps
    /\ \E evt \in EventPool : Process(evt, FailPoints)
    /\ UNCHANGED <<dispatchVars, deliveryVars>>

\* a media id is fetched through the media proxy
ProxyFetch ==
    /\ steps < MaxSteps
    /\ \E mediaID \in {m.URL.FileID : m \in posted} \cup UnmintedIDs,
          fail \in {"none", "download"}, served \in ServedTypes :
          \E out \in {GetMedia(mediaID, fail, served)} :
             Take("fetch", [NoEvent EXCEPT !.URL = ContentURI(ServerName, mediaID)], fail, out)
    /\ UNCHANGED <<dispatchVars, deliveryVars>>

\* the values a room member puts into a field of a stored record
TamperValues(state) ==
    [Path |-> {<<>>, <<47, 109, 47, 117, 47, 98>>},
     FileName |-> {<<>>, <<98>>},
     MXC |-> {<<>>, <<120>>},
     Signature |-> {<<>>, SignBytes(<<>>, MarshalState([state EXCEPT !.Signature = <<>>]))}]

\* a room member changes one field of a stored record
TamperState ==
    /\ steps < MaxSteps
    /\ \E key \in DOMAIN roomState, f \in {"Path", "FileName", "MXC", "Signature"} :
         \E v \in TamperValues(roomState[key])[f] :
            /\ v # roomState[key][f]
            /\ roomState' = [roomState EXCEPT ![key][f] = v]
    /\ obs' = [op |-> "tamper"]
    /\ steps' = steps + 1
    /\ UNCHANGED <<config, ncFiles, dirCache, hsMedia, posted, signedRecs, codecVars,
                   dispatchVars, deliveryVars, partVars>>

BridgeNext == HandleMatrixEvent \/ ProxyFetch \/ TamperState

Spec == BridgeInit /\ [][BridgeNext]_vars

(***************************************************************************)
(* Properties of the bridge                                                *)
(***************************************************************************)
\* the step that led here was a call of HandleMatrixEvent or of the resolver
Called == obs.op \in {"event", "fetch"}

\* the step that led here handled a redaction that names an event
Redacted ==
    /\ obs.op = "event"
    /\ obs.evt.Type = "m.room.redaction"
    /\ obs.evt.Redacts # <<>>

\* the positions of the DELETE requests the last step sent to the storage
StorageDeletes ==
    {i \in 1..Len(obs.reqs) : obs.reqs[i].to = "storage" /\ obs.reqs[i].m = "DELETE"}

\* the last step sent nothing to the storage
NoStorageRequest == \A i \in 1..Len(obs.reqs) : obs.reqs[i].to # "storage"

\* the key of the state event a redaction looks up
RedactedKey == <<obs.evt.RoomID, obs.evt.Redacts>>

\* C2: a DELETE reaches the storage only from the handling of a redaction,
\* and only when the record fetched for the redacted event has a path, has
\* a signature, and that signature is the one the shared secret gives for
\* the record; the path deleted is the record's path.  Message processing
\* and the proxy's fetches send no DELETE to the storage.
C2_DeleteOnlyVerified ==
    Called =>
        \A i \in StorageDeletes :
            /\ Redacted
            /\ obs.fetched # <<>>
            /\ obs.fetched[1].Path # <<>>
            /\ obs.fetched[1].Signature # <<>>
            /\ obs.fetched[1].Signature =
                  SignBytes(mediaIDSecret,
                            MarshalState([obs.fetched[1] EXCEPT !.Signature = <<>>]))
            /\ obs.reqs[i].target = TrimLeftSlash(obs.fetched[1].Path)

\* a redaction has deleted the file of a record
C2_Witness ==
    /\ Redacted
    /\ StorageDeletes # {}
    /\ obs.err = "nil"
    /\ TrimLeftSlash(obs.fetched[1].Path) \notin DOMAIN ncFiles

\* C3: a redaction of an event whose record is absent, has no path, has no
\* signature, or is not a record as the bridge signed it, sends nothing to
\* the storage and returns no error.
C3_RedactionNoOp ==
    (/\ Redacted
     /\ \/ RedactedKey \notin DOMAIN roomState
        \/ roomState[RedactedKey].Path = <<>>
        \/ roomState[RedactedKey].Signature = <<>>
        \/ roomState[RedactedKey] \notin signedRecs)
    => NoStorageRequest /\ obs.err = "nil"

\* a redaction has met a record with path and signature of which a field
\* was changed after the bridge signed it
C3_Witness ==
    /\ Redacted
    /\ RedactedKey \in DOMAIN roomState
    /\ roomState[RedactedKey].Path # <<>>
    /\ roomState[RedactedKey].Signature # <<>>
    /\ roomState[RedactedKey] \notin signedRecs
    /\ obs.fetched = <<roomState[RedactedKey]>>

\* the last step placed the content of a message
Placed == obs.op = "event" /\ obs.placed

\* C6: when the content of a message is the content already stored at the
\* rendered path, nothing is uploaded and the rendered path is the final
\* one, whatever the length of the content.
C6_SecondPassReuses ==
    (Placed /\ obs.found = obs.content)
    => ~obs.uploaded /\ obs.finalPath = obs.rendered

\* the numbered candidates before the final path were all taken
NumberedPath ==
    \E i \in 1..maxCounter :
        /\ obs.finalPath = addCounterSuffix(obs.rendered, i)[1]
        /\ obs.finalFilename = addCounterSuffix(obs.rendered, i)[2]
        /\ \A j \in 1..(i - 1) :
              TrimLeftSlash(addCounterSuffix(obs.rendered, j)[1]) \in DOMAIN ncFiles

\* the content went to a numbered path, what was at the rendered path is
\* still there, and the media id names the numbered path
PlacedBeside ==
    /\ obs.uploaded
    /\ obs.finalPath # obs.rendered
    /\ NumberedPath
    /\ ncFiles[TrimLeftSlash(obs.rendered)] = obs.found
    /\ ncFiles[TrimLeftSlash(obs.finalPath)] = obs.content
    /\ DecodeMediaID(mediaIDSecret, obs.mxc.FileID).ok
    /\ DecodeMediaID(mediaIDSecret, obs.mxc.FileID).ref.Path = TrimLeftSlash(obs.finalPath)

\* C7 as stated: content that differs from the content stored at the
\* rendered path goes to a numbered path.
C7_DifferingContentNumbered ==
    (Placed /\ obs.found # NoContent /\ obs.found # obs.content) => PlacedBeside

\* C7: content whose length differs from the length of the content stored
\* at the rendered path goes to the first free numbered path, the stored
\* file stays as it was, and the media id names the numbered path.
C7_DifferingLengthNumbered ==
    (Placed /\ obs.found # NoContent /\ obs.found.len # obs.content.len) => PlacedBeside

\* content of another length has met a stored file and was placed beside it
C7_Witness ==
    /\ Placed
    /\ obs.found # NoContent
    /\ obs.found.len # obs.content.len
    /\ obs.uploaded
    /\ obs.finalPath # obs.rendered

\* C8: after the rewrite the media id of the replacement's pointer decodes
\* to the final path without its leading slash, the final filename and the
\* resolved MIME type, and the pointer's origin is the proxy's server name.
C8_PointerDecodes ==
    (obs.op = "event" /\ obs.rewritten)
    => /\ obs.mxc.Homeserver = ServerName
       /\ \E m \in posted : m.RelatesTo = obs.evt.ID /\ m.URL = obs.mxc
       /\ DecodeMediaID(mediaIDSecret, obs.mxc.FileID).ok
       /\ DecodeMediaID(mediaIDSecret, obs.mxc.FileID).ref =
             MediaRef(TrimLeftSlash(obs.finalPath), obs.finalFilename, obs.mimeType)

\* the step from this state to the next is a call of HandleMatrixEvent on
\* an attachment event in which the point of failure f was hit
FailsAt(f) == obs'.op = "event" /\ obs'.fail = f

\* requests of the step that go to one service with one method
RequestsOf(o, to, method) ==
    {i \in 1..Len(o.reqs) : o.reqs[i].to = to /\ o.reqs[i].m = method}

\* every stored file is still stored, with its content
StoredFilesKept ==
    \A k \in DOMAIN ncFiles : k \in DOMAIN ncFiles' /\ ncFiles'[k] = ncFiles[k]

C14_FallbackPosted ==
    [][FailsAt("send") =>
          \E m \in posted' \ posted : m.Sender = BotMXID /\ m.URL = obs'.mxc]_vars

\* the step from this state to the next is a call of HandleMatrixEvent on
\* an attachment event in which a storage or network step before the upload
\* failed: the download, the directory creation, the Stat of the rendered
\* path or the Stat of a numbered candidate
FailsBeforeUpload ==
    /\ obs'.op = "event"
    /\ obs'.evt.Type = "m.room.message"
    /\ \/ obs'.fail \in {"download", "mkcol", "stat", "statcand"}
       \/ obs'.err \in {"download", "mkdir", "stat"}

\* C15: when a storage or network step before the upload fails,
\* HandleMatrixEvent returns an error and has uploaded no file, posted no
\* replacement message and written no state record.
C15_EarlyFailureReturnsError ==
    [][FailsBeforeUpload =>
          /\ obs'.err \in {"download", "mkdir", "stat"}
          /\ ncFiles' = ncFiles /\ ~obs'.uploaded
          /\ RequestsOf(obs', "storage", "PUT") = {}
          /\ posted' = posted /\ RequestsOf(obs', "matrix", "PUT message") = {}
          /\ roomState' = roomState /\ signedRecs' = signedRecs
          /\ RequestsOf(obs', "matrix", "PUT state") = {}]_vars

\* C15 witness: the content was downloaded, the rendered path is taken by a
\* file of another length, the Stat of the first numbered candidate failed
\* and the call returned the error.
C15_Witness ==
    /\ obs.op = "event" /\ obs.fail = "statcand" /\ obs.err = "stat"
    /\ obs.content # NoContent
    /\ StorageKey(obs.rendered) \in DOMAIN ncFiles
    /\ ncFiles[StorageKey(obs.rendered)].len # obs.content.len
    /\ obs.reqs[Len(obs.reqs)].m = "HEAD"

\* the step from this state to the next handles again an attachment event
\* that was handled before: the room holds the event's state record and the
\* file of the recorded path holds the event's content, of positive length
Redelivered ==
    /\ obs'.op = "event"
    /\ obs'.evt.Type = "m.room.message"
    /\ obs'.content # NoContent /\ obs'.content.len > 0
    /\ <<obs'.evt.RoomID, obs'.evt.ID>> \in DOMAIN roomState
    /\ LET key == StorageKey(roomState[<<obs'.evt.RoomID, obs'.evt.ID>>].Path)
       IN  key \in DOMAIN ncFiles /\ ncFiles[key] = obs'.content

\* C16: handling an attachment event again on redelivery stores no further
\* copy of its content, also when the first handling placed the content at
\* a numbered path: the target storage holds no file it did not hold
\* before.
C16_RedeliveryStoresNoCopy ==
    [][Redelivered => ~obs'.uploaded /\ DOMAIN ncFiles' = DOMAIN ncFiles]_vars

\* the media id of the fetch that led here, and what it decodes to
FetchedID == obs.evt.URL.FileID

\* C20: a fetch whose media id fails DecodeMediaID gets the invalid-id error
\* and sends no request to the storage; a fetch whose media id decodes
\* sends one GET for the decoded path, and when the download succeeds it
\* answers with the file of that path and with the reference's MIME type,
\* or the Content-Type the storage reported when the reference has none.
C20_ProxyFetch ==
    obs.op = "fetch" =>
        \A ref \in {DecodeMediaID(mediaIDSecret, FetchedID)} :
            IF ~ref.ok THEN obs.err = "invalid" /\ obs.reqs = <<>>
            ELSE /\ obs.reqs = <<Req("storage", "GET", StorageKey(ref.ref.Path))>>
                 /\ obs.err \in {"nil", "download"}
                 /\ obs.err = "nil" =>
                       /\ obs.content = ncFiles[StorageKey(ref.ref.Path)]
                       /\ obs.mimeType = IF ref.ref.MimeType # <<>> THEN ref.ref.MimeType
                                          ELSE obs.served

\* C20 witness: a media id of a reference without MIME type was fetched,
\* the storage served the file with a Content-Type and the answer carries
\* that type.
C20_Witness ==
    /\ obs.op = "fetch" /\ obs.err = "nil"
    /\ obs.served # <<>> /\ obs.mimeType = obs.served
    /\ DecodeMediaID(mediaIDSecret, FetchedID).ref.MimeType = <<>>

(***************************************************************************)
(* Event dispatcher (main): one goroutine ranges over as.Events, takes a   *)
(* slot of the semaphore for every event and starts a worker goroutine;    *)
(* the worker releases the slot in a deferred function.  Workers are       *)
(* interchangeable, so they are counted per position.                      *)
(***************************************************************************)
maxConcurrentEvents == 10

\* number of events the appservice delivers in a run
MaxEvents == 12

DispatchInit ==
    /\ dPending = MaxEvents
    /\ dPc = "recv"
    /\ semaphore = 0
    /\ wStart = 0 /\ wJoin = 0 /\ wHandle = 0 /\ wDefer = 0 /\ wDone = 0
    /\ dReleased = 0
    /\ dLog = "none"
    /\ inbound = <<>> /\ running = {}
    /\ CodecIdle /\ BridgeIdle /\ PartsIdle

\* for evt := range as.Events
Receive ==
    /\ dPc = "recv"
    /\ dPending > 0
    /\ dPending' = dPending - 1
    /\ dPc' = "acquire"
    /\ UNCHANGED <<semaphore, wStart, wJoin, wHandle, wDefer, wDone, dReleased, dLog, codecVars, bridgeVars, deliveryVars, partVars>>

\* a send that does not wait for room in the channel
Acquire_NoWait ==
    /\ dPc = "acquire"
    /\ semaphore' = Min2(semaphore + 1, maxConcurrentEvents)
    /\ dPc' = "spawn"
    /\ UNCHANGED <<dPending, wStart, wJoin, wHandle, wDefer, wDone, dReleased, dLog, codecVars, bridgeVars, deliveryVars, partVars>>

\* semaphore <- struct{}{}: blocks while the channel is full
Acquire ==
    /\ dPc = "acquire"
    /\ semaphore < maxConcurrentEvents
    /\ semaphore' = semaphore + 1
    /\ dPc' = "spawn"
    /\ UNCHANGED <<dPending, wStart, wJoin, wHandle, wDefer, wDone, dReleased, dLog, codecVars, bridgeVars, deliveryVars, partVars>>

\* go func() { ... }()
Spawn ==
    /\ dPc = "spawn"
    /\ wStart' = wStart + 1
    /\ dPc' = "recv"
    /\ UNCHANGED <<dPending, semaphore, wJoin, wHandle, wDefer, wDone, dReleased, dLog, codecVars, bridgeVars, deliveryVars, partVars>>

\* the event is not encrypted or no crypto helper is configured, or
\* cryptoHelper.Decrypt succeeds (evt = decrypted): the body goes on
WorkerDecrypt ==
    /\ wStart > 0
    /\ wStart' = wStart - 1
    /\ wJoin' = wJoin + 1
    /\ UNCHANGED <<dPending, dPc, semaphore, wHandle, wDefer, wDone, dReleased, dLog, codecVars, bridgeVars, deliveryVars, partVars>>

\* a body that returns on a decryption failure without the deferred release
WorkerDecryptFails_NoRelease ==
    /\ wStart > 0
    /\ wStart' = wStart - 1
    /\ wDone' = wDone + 1
    /\ dLog' = "decrypt_failed"
    /\ UNCHANGED <<dPending, dPc, semaphore, wJoin, wHandle, wDefer, dReleased, codecVars, bridgeVars, deliveryVars, partVars>>

\* cryptoHelper.Decrypt fails: the error is logged and the body returns
WorkerDecryptFails ==
    /\ wStart > 0
    /\ wStart' = wStart - 1
    /\ wDefer' = wDefer + 1
    /\ dLog' = "decrypt_failed"
    /\ UNCHANGED <<dPending, dPc, semaphore, wJoin, wHandle, wDone, dReleased, codecVars, bridgeVars, deliveryVars, partVars>>

\* handlers.HandleAutoJoin: an error is logged, the body goes on
WorkerAutoJoin ==
    /\ wJoin > 0
    /\ wJoin' = wJoin - 1
    /\ wHandle' = wHandle + 1
    /\ \E err \in BOOLEAN : dLog' = IF err THEN "join_error" ELSE dLog
    /\ UNCHANGED <<dPending, dPc, semaphore, wStart, wDefer, wDone, dReleased, codecVars, bridgeVars, deliveryVars, partVars>>

\* mediaHandler.HandleMatrixEvent: an error is logged, the body ends
WorkerHandle ==
    /\ wHandle > 0
    /\ wHandle' = wHandle - 1
    /\ wDefer' = wDefer + 1
    /\ \E err \in BOOLEAN : dLog' = IF err THEN "handle_error" ELSE dLog
    /\ UNCHANGED <<dPending, dPc, semaphore, wStart, wJoin, wDone, dReleased, codecVars, bridgeVars, deliveryVars, partVars>>

\* a worker that ends without the receive from the semaphore
WorkerRelease_KeepsSlot ==
    /\ wDefer > 0
    /\ wDefer' = wDefer - 1
    /\ wDone' = wDone + 1
    /\ UNCHANGED <<dPending, dPc, semaphore, wStart, wJoin, wHandle, dReleased, dLog, codecVars, bridgeVars, deliveryVars, partVars>>

\* defer func() { <-semaphore }()
WorkerRelease ==
    /\ wDefer > 0
    /\ semaphore > 0
    /\ semaphore' = semaphore - 1
    /\ dReleased' = dReleased + 1
    /\ wDefer' = wDefer - 1
    /\ wDone' = wDone + 1
    /\ UNCHANGED <<dPending, dPc, wStart, wJoin, wHandle, dLog, codecVars, bridgeVars, deliveryVars, partVars>>

DispatchNext ==
    \/ Receive \/ Acquire \/ Spawn
    \/ WorkerDecrypt \/ WorkerDecryptFails
    \/ WorkerAutoJoin \/ WorkerHandle \/ WorkerRelease

SpecDispatch == DispatchInit /\ [][DispatchNext]_vars

\* workers that have started and not finished
ActiveWorkers == wStart + wJoin + wHandle + wDefer

\* C9: the number of events being processed by workers never exceeds the
\* concurrency limit, and every such worker holds a slot of the gate.
C9_BoundedWorkers ==
    /\ ActiveWorkers <= maxConcurrentEvents
    /\ ActiveWorkers <= semaphore
    /\ semaphore <= maxConcurrentEvents

\* C9 witness: the gate is full, ten workers are active and the dispatcher
\* waits with a further event for a slot.
C9_Witness ==
    ActiveWorkers = maxConcurrentEvents /\ dPc = "acquire"

\* C10: every finished worker has released exactly one slot, whatever way
\* its body ended, and when every started worker has finished no slot is
\* held on a worker's behalf.
C10_SlotsReleased ==
    /\ dReleased = wDone
    /\ (ActiveWorkers = 0 /\ dPc # "spawn") => semaphore = 0

\* C10 witness: all events were handled, the last worker body to end in an
\* error ended by a decryption failure, and the gate is free.
C10_Witness ==
    /\ dPending = 0 /\ ActiveWorkers = 0 /\ dPc = "recv"
    /\ wDone = MaxEvents /\ dLog = "decrypt_failed" /\ semaphore = 0

(***************************************************************************)
(* Progress of the dispatcher.  The Go scheduler runs every goroutine that *)
(* can take a step: the dispatcher loop when an event is waiting or a slot *)
(* is free, and every worker whose call has returned (each worker's        *)
(* processing terminates).                                                 *)
(***************************************************************************)
DispatchFairness ==
    /\ WF_vars(Receive \/ Acquire \/ Spawn)
    /\ WF_vars(WorkerDecrypt \/ WorkerDecryptFails)
    /\ WF_vars(WorkerAutoJoin)
    /\ WF_vars(WorkerHandle)
    /\ WF_vars(WorkerRelease)

SpecDispatchLive == DispatchInit /\ [][DispatchNext]_vars /\ DispatchFairness

\* events handed to a worker goroutine so far
Handed == ActiveWorkers + wDone

\* C11: no event taken from as.Events is dropped (every event taken is held
\* by the dispatcher loop or was handed to a worker), a dispatcher waiting
\* for a slot gets one, and every delivered event is eventually handed to a
\* worker.
C11_EveryEventHanded ==
    /\ [](MaxEvents - dPending = Handed + (IF dPc = "recv" THEN 0 ELSE 1))
    /\ (dPc = "acquire") ~> (dPc = "spawn")
    /\ <>(dPending = 0 /\ dPc = "recv" /\ Handed = MaxEvents)

\* C11 witness: every delivered event was handed to a worker although only
\* ten slots exist: ten workers are still active, so the last two events
\* waited for slots that finished workers released.
C11_Witness ==
    /\ dPending = 0 /\ dPc = "recv" /\ Handed = MaxEvents
    /\ ActiveWorkers = maxConcurrentEvents /\ dReleased = MaxEvents - maxConcurrentEvents

(***************************************************************************)
(* The dispatcher with the events it carries.  The loop of main() takes    *)
(* the events of as.Events in order, and for each takes a slot and starts  *)
(* a goroutine whose body calls HandleMatrixEvent; the goroutines of       *)
(* different events run independently of each other, so which of them      *)
(* calls HandleMatrixEvent first is the scheduler's choice.                *)
(***************************************************************************)
\* the redaction of a message, sent later in the same room
RedactionOf(msg) == Redaction(<<36, 55>>, msg.RoomID, msg.ID)

\* the streams delivered: an attachment message and later its redaction,
\* with or without another message of the room in between
Streams ==
    { <<m, RedactionOf(m)>> : m \in {Msg1, Msg2, Msg3, Msg4, Msg5, EncMsg} } \cup
    { <<m, o, RedactionOf(m)>> :
         m \in {Msg1, Msg3}, o \in {Msg5, [Msg1 EXCEPT !.MsgType = "m.text"]} }

DeliveryInit ==
    /\ inbound \in Streams
    /\ running = {}
    /\ dPending = Len(inbound)
    /\ dPc = "recv"
    /\ semaphore = 0
    /\ wStart = 0 /\ wJoin = 0 /\ wHandle = 0 /\ wDefer = 0 /\ wDone = 0
    /\ dReleased = 0
    /\ dLog = "none"
    /\ config \in ConfigPool
    /\ ncFiles = <<>>
    /\ dirCache = {}
    /\ roomState = <<>>
    /\ hsMedia = DOMAIN SourceMedia
    /\ posted = {}
    /\ signedRecs = {}
    /\ steps = 0
    /\ obs = [op |-> "none"]
    /\ CodecIdle /\ PartsIdle

\* position in inbound of the next event of as.Events
NextPosition == Len(inbound) - dPending + 1

\* one turn of the loop: the next event is received, a slot is taken and
\* the goroutine for the event is started
HandOver ==
    /\ dPending > 0
    /\ semaphore < maxConcurrentEvents
    /\ dPending' = dPending - 1
    /\ semaphore' = semaphore + 1
    /\ running' = running \cup {NextPosition}
    /\ UNCHANGED <<inbound, dPc, wStart, wJoin, wHandle, wDefer, wDone, dReleased, dLog,
                   codecVars, bridgeVars, partVars>>

\* the body of one goroutine: HandleMatrixEvent on its event, then the
\* deferred release of the slot
WorkerBody ==
    \E i \in running :
        /\ Process(inbound[i], {"none"})
        /\ running' = running \ {i}
        /\ semaphore' = semaphore - 1
        /\ dReleased' = dReleased + 1
        /\ wDone' = wDone + 1
        /\ UNCHANGED <<inbound, dPending, dPc, wStart, wJoin, wHandle, wDefer, dLog>>

DeliveryNext == HandOver \/ WorkerBody

SpecDelivery == DeliveryInit /\ [][DeliveryNext]_vars

\* the event at position i has been through HandleMatrixEvent
Processed(i) == i < NextPosition /\ i \notin running

\* position j holds the redaction of the attachment message at position i
RedactionAfter(i, j) ==
    /\ i < j
    /\ inbound[j].Type = "m.room.redaction"
    /\ inbound[j].RoomID = inbound[i].RoomID
    /\ inbound[j].Redacts = inbound[i].ID

\* C12: when an attachment message and later its redaction are delivered in
\* that order, the redaction is handled after the message has been handled
\* (its lookup comes after the message's record was written), and once both
\* are handled the file stored for the message is gone.
C12_RedactionAfterMessage ==
    \A i, j \in 1..Len(inbound) :
        RedactionAfter(i, j) =>
            /\ (obs.op = "event" /\ obs.evt = inbound[j]) => Processed(i)
            /\ (Processed(i) /\ Processed(j) /\ <<inbound[i].RoomID, inbound[i].ID>> \in DOMAIN roomState)
                  => StorageKey(roomState[<<inbound[i].RoomID, inbound[i].ID>>].Path) \notin DOMAIN ncFiles

(***************************************************************************)
(* The path utilities called as HandleMatrixEvent calls them: the labels   *)
(* of an event go through SanitizePathSegment (or are given as they are,   *)
(* for RenderPathTemplate on its own), the event's timestamp becomes a     *)
(* time by time.UnixMilli(evt.Timestamp).UTC(), and RenderPathTemplate is  *)
(* called, twice with the same inputs.                                     *)
(***************************************************************************)
\* the longest label of the label pool
MaxLabelLen == 3

\* time.UnixMilli(ms).UTC(): the civil date of a number of milliseconds
\* since 1 January 1970 UTC
UnixMilliUTC(ms) ==
    LET z == (ms \div 86400000) + 719468
        era == z \div 146097
        doe == z - era * 146097
        yoe == (doe - doe \div 1460 + doe \div 36524 - doe \div 146096) \div 365
        doy == doe - (365 * yoe + yoe \div 4 - yoe \div 100)
        mp == (5 * doy + 2) \div 153
        month == IF mp < 10 THEN mp + 3 ELSE mp - 9
    IN  [year |-> yoe + era * 400 + (IF month <= 2 THEN 1 ELSE 0),
         month |-> month,
         day |-> doy - (153 * mp + 2) \div 5 + 1]

\* "/${year}/${month}/${day}/${file}"
DatedTemplate ==
    <<Slash>> \o Placeholders[1] \o <<Slash>> \o Placeholders[2] \o <<Slash>> \o
    Placeholders[3] \o <<Slash>> \o Placeholders[6]

\* labels of the characters SanitizePathSegment treats: "/", "\", ":", ".",
\* the space, and a letter
LabelPool == StringsUpTo({Slash, 92, 58, Dot, 32, 97}, MaxLabelLen)

\* evt.Timestamp in milliseconds: none (0), the last millisecond of
\* 1 January 1970, the first of 2 January, and 25 January
TimestampPool == {0, 86399999, 86400000, 2147483647}

\* the inputs of the calls: every label of the pool as the file label, and
\* labels that hold a placeholder text with every template and timestamp
PathInputs ==
    { [template |-> RoomPathTemplate[RoomID], room |-> <<114>>, user |-> <<117>>,
       file |-> f, ts |-> 86400000] : f \in LabelPool } \cup
    { [template |-> t, room |-> <<114>>, user |-> u, file |-> f, ts |-> ts] :
         t \in {RoomPathTemplate[RoomID], DatedTemplate},
         u \in {<<117>>, Placeholders[6]},
         f \in {<<97>>, Placeholders[5], Placeholders[1]},
         ts \in TimestampPool }

PathInit ==
    /\ pPhase = "raw"
    /\ pIn \in PathInputs
    /\ pSan = FALSE
    /\ pLabel = [room |-> pIn.room, user |-> pIn.user, file |-> pIn.file]
    /\ pFirst = <<>>
    /\ pSecond = <<>>
    /\ CodecIdle /\ DispatchIdle /\ BridgeIdle /\ LoadIdle /\ ClientIdle

\* roomSegment, userSegment, fileSegment := utils.SanitizePathSegment(...)
Sanitize ==
    /\ pPhase = "raw"
    /\ pLabel' = [room |-> SanitizePathSegment(pIn.room),
                  user |-> SanitizePathSegment(pIn.user),
                  file |-> SanitizePathSegment(pIn.file)]
    /\ pSan' = TRUE
    /\ pPhase' = "sanitized"
    /\ UNCHANGED <<pIn, pFirst, pSecond, wholeVars, loadVars, clientVars>>

\* what utils.RenderPathTemplate can return for the inputs in hand
Renderings ==
    RenderPathTemplate(pIn.template, pLabel.room, pLabel.user, pLabel.file,
                       UnixMilliUTC(pIn.ts), Now)

\* nextcloudPath := utils.RenderPathTemplate(...)
Render ==
    /\ pPhase \in {"raw", "sanitized"}
    /\ pFirst' \in Renderings
    /\ pPhase' = "once"
    /\ UNCHANGED <<pIn, pSan, pLabel, pSecond, wholeVars, loadVars, clientVars>>

\* a second call with the same inputs
RenderAgain ==
    /\ pPhase = "once"
    /\ pSecond' \in Renderings
    /\ pPhase' = "twice"
    /\ UNCHANGED <<pIn, pSan, pLabel, pFirst, wholeVars, loadVars, clientVars>>

PathNext == Sanitize \/ Render \/ RenderAgain

SpecPath == PathInit /\ [][PathNext]_vars

\* C17: two calls of RenderPathTemplate with the same template, labels and
\* non-zero event time return the same path, also when a label holds a
\* placeholder text.
C17_RenderDeterministic ==
    pPhase = "twice" => pSecond = pFirst

\* the UTC dates of the timestamps of TimestampPool that an event carries
DateOfTimestamp ==
    (86399999 :> [year |-> 1970, month |-> 1, day |-> 1]) @@
    (86400000 :> [year |-> 1970, month |-> 1, day |-> 2]) @@
    (2147483647 :> [year |-> 1970, month |-> 1, day |-> 25])

\* "/<year>/<month>/<day>/<file>" for a date
DatedPath(date, file) ==
    <<Slash>> \o Itoa(date.year) \o <<Slash>> \o Itoa02(date.month) \o <<Slash>> \o
    Itoa02(date.day) \o <<Slash>> \o file

\* C18: the year, month and day in the storage path of an attachment event
\* are those of the event's timestamp in UTC, and those of the current time
\* when the event carries no timestamp (evt.Timestamp is 0).
C18_DateOfEventOrNow ==
    (pPhase \in {"once", "twice"} /\ pSan /\ pIn.template = DatedTemplate /\ pIn.file = <<97>>)
        => pFirst = DatedPath(IF pIn.ts = 0 THEN Now ELSE DateOfTimestamp[pIn.ts], pLabel.file)

\* the text has no occurrence of ".."
NoDotDot(str) == \A i \in 1..Len(str) - 1 : ~(str[i] = Dot /\ str[i + 1] = Dot)

\* the labels SanitizePathSegment returned
Sanitized == {pLabel.room, pLabel.user, pLabel.file}

Dollar == 36

\* os.isShellSpecialVar: * # $ @ ! ? - and the digits
isShellSpecialVar(c) == c \in {42, 35, 36, 64, 33, 63, 45} \cup (48..57)

\* os.isAlphaNum: the underscore, the digits and the letters
isAlphaNum(c) == c = 95 \/ c \in 48..57 \/ c \in 97..122 \/ c \in 65..90

\* the number of characters at the head of s for which isAlphaNum holds
RECURSIVE AlphaNumRun(_, _)
AlphaNumRun(str, i) ==
    IF i <= Len(str) /\ isAlphaNum(str[i]) THEN AlphaNumRun(str, i + 1) ELSE i - 1

\* os.getShellName on the text after a dollar sign: the name and the number
\* of characters it takes
getShellName(str) ==
    IF str[1] = 123
    THEN IF Len(str) > 2 /\ isShellSpecialVar(str[2]) /\ str[3] = 125
         THEN [name |-> <<str[2]>>, w |-> 3]
         ELSE LET close == IndexByte(Drop(str, 2), 125)
              IN  IF close = 0 THEN [name |-> <<>>, w |-> 1]
                  ELSE IF close = 1 THEN [name |-> <<>>, w |-> 2]
                  ELSE [name |-> SubSeq(str, 2, close), w |-> close + 1]
    ELSE IF isShellSpecialVar(str[1]) THEN [name |-> <<str[1]>>, w |-> 1]
    ELSE [name |-> SubSeq(str, 1, AlphaNumRun(str, 1)), w |-> AlphaNumRun(str, 1)]

\* the mapping of expandEnvPreserveUnknown: os.LookupEnv, and the
\* reference written again for a name that is not set
mapping(key, env) ==
    IF key \in DOMAIN env THEN env[key]
    ELSE <<Dollar, 123>> \o key \o <<125>>

\* os.Expand from position j on
RECURSIVE ExpandFrom(_, _, _)
ExpandFrom(str, j, env) ==
    IF j > Len(str) THEN <<>>
    ELSE IF str[j] = Dollar /\ j < Len(str)
    THEN LET got == getShellName(Drop(str, j + 1))
             put == IF got.name = <<>> /\ got.w > 0 THEN <<>>
                    ELSE IF got.name = <<>> THEN <<Dollar>>
                    ELSE mapping(got.name, env)
         IN  put \o ExpandFrom(str, j + got.w + 1, env)
    ELSE <<str[j]>> \o ExpandFrom(str, j + 1, env)

expandEnvPreserveUnknown(value, env) == ExpandFrom(value, 1, env)

\* a reference ${NAME}
Reference(name) == <<Dollar, 123>> \o name \o <<125>>

\* the names referred to: the placeholders year, user and file of a path
\* template, and P and E of the environment
RefNames == { <<121, 101, 97, 114>>, <<117, 115, 101, 114>>, <<102, 105, 108, 101>>,
              <<80>>, <<69>> }

\* the pieces of a configuration text: plain text ("/a", "/m/", and "/$",
\* a slash and a dollar sign) and references
Pieces ==
    { [ref |-> FALSE, text |-> t] : t \in {<<Slash, 97>>, <<Slash, 109, Slash>>, <<Slash, Dollar>>} } \cup
    { [ref |-> TRUE, text |-> n] : n \in RefNames }

\* the longest configuration text, in pieces
MaxPieces == 3

\* the environments: nothing set; P set; E set to the empty text and a
\* variable of the name of a placeholder set
Environments ==
    { <<>>,
      (<<80>> :> <<115>>),
      (<<80>> :> <<115>>) @@ (<<69>> :> <<>>) @@ (<<117, 115, 101, 114>> :> <<120>>) }

\* the text of a sequence of pieces
RECURSIVE TextOf(_)
TextOf(pieces) ==
    IF pieces = <<>> THEN <<>>
    ELSE (IF Head(pieces).ref THEN Reference(Head(pieces).text) ELSE Head(pieces).text)
         \o TextOf(Tail(pieces))

LoadInit ==
    /\ lPhase = "text"
    /\ lText \in UNION {[1..n -> Pieces] : n \in 1..MaxPieces}
    /\ lEnv \in Environments
    /\ lOut = <<>>
    /\ CodecIdle /\ DispatchIdle /\ BridgeIdle /\ PathIdle /\ ClientIdle

\* expanded := expandEnvPreserveUnknown(string(data))
LoadConfig ==
    /\ lPhase = "text"
    /\ lOut' = expandEnvPreserveUnknown(TextOf(lText), lEnv)
    /\ lPhase' = "loaded"
    /\ UNCHANGED <<lText, lEnv, wholeVars, pathVars, clientVars>>

LoadNext == LoadConfig

SpecLoad == LoadInit /\ [][LoadNext]_vars

\* what the claim says of a text: every reference to a name that is set is
\* replaced by the value, every other piece stays as it is
RECURSIVE Expected(_, _)
Expected(pieces, env) ==
    IF pieces = <<>> THEN <<>>
    ELSE (IF Head(pieces).ref /\ Head(pieces).text \in DOMAIN env
          THEN env[Head(pieces).text]
          ELSE IF Head(pieces).ref THEN Reference(Head(pieces).text)
          ELSE Head(pieces).text)
         \o Expected(Tail(pieces), env)

\* C21: LoadConfig replaces a reference ${NAME} by the value of NAME when
\* NAME is set in the environment and leaves it as it is when NAME is not
\* set; a text whose references are all to names that are not set, such as
\* a path template with its placeholders, comes out unchanged.
C21_ExpandKeepsUnknown ==
    lPhase = "loaded" =>
        /\ lOut = Expected(lText, lEnv)
        /\ (\A i \in 1..Len(lText) : lText[i].ref => lText[i].text \notin DOMAIN lEnv)
              => lOut = TextOf(lText)

\* the references that os.Expand reads as ${NAME}: those that do not come
\* directly after a dollar sign ("$$" is read as the reference to the
\* shell variable $)
AfterDollar(pieces) ==
    \E i \in 2..Len(pieces) :
        pieces[i].ref /\ pieces[i - 1].text[Len(pieces[i - 1].text)] = Dollar /\ ~pieces[i - 1].ref

\* a text in which no reference comes directly after a dollar sign is
\* expanded as C21 says
ExpandKeepsUnknownElsewhere ==
    (lPhase = "loaded" /\ ~AfterDollar(lText)) => lOut = Expected(lText, lEnv)

\* a text with a placeholder and a reference to a variable that is set was
\* loaded; the placeholder is still there and the value is in the place of
\* the reference
LoadedAsInTest ==
    /\ lPhase = "loaded"
    /\ lText = << [ref |-> FALSE, text |-> <<Slash, 109, Slash>>],
                  [ref |-> TRUE, text |-> <<102, 105, 108, 101>>],
                  [ref |-> TRUE, text |-> <<80>>] >>
    /\ lEnv = (<<80>> :> <<115>>)
    /\ lOut = <<Slash, 109, Slash>> \o Reference(<<102, 105, 108, 101>>) \o <<115>>

(***************************************************************************)
(* The order of the steps of HandleMatrixEvent for one attachment event.   *)
(***************************************************************************)
\* every request of the first set is sent before every request of the second
Before(first, second) == \A i \in first, j \in second : i < j

\* the requests of a call that are the visible steps: the upload, the
\* replacement message, the state record and the cleanup of the source
StepsOf(o) ==
    [upload  |-> RequestsOf(o, "storage", "PUT"),
     message |-> RequestsOf(o, "matrix", "PUT message"),
     state   |-> RequestsOf(o, "matrix", "PUT state"),
     cleanup |-> RequestsOf(o, "admin", "DELETE")]

\* each step at most once, and in the order upload, message, state, cleanup
InOrder(st) ==
    /\ \A f \in DOMAIN st : Cardinality(st[f]) <= 1
    /\ Before(st.upload, st.message) /\ Before(st.upload, st.state)
    /\ Before(st.upload, st.cleanup) /\ Before(st.message, st.state)
    /\ Before(st.message, st.cleanup) /\ Before(st.state, st.cleanup)

\* the replacement message of an event is in the room
ReplacementPosted(msgs, evt) ==
    \E m \in msgs : m.RoomID = evt.RoomID /\ m.RelatesTo = evt.ID /\ m.RelType = "m.replace"

\* every state record of the room belongs to an event whose replacement
\* message is in the room
RecordsHaveMessage ==
    \A key \in DOMAIN roomState :
        \E m \in posted : m.RoomID = key[1] /\ m.RelatesTo = key[2] /\ m.RelType = "m.replace"

\* the steps of the call up to the state record, each after the success of
\* the one before: the message after the content was stored (by the upload
\* or found stored) and the token minted, the state record after the
\* message was posted
OrderedToState ==
    LET st == StepsOf(obs')
    IN  /\ InOrder(st)
        /\ obs'.uploaded => st.upload # {}
        /\ st.message # {} =>
              /\ obs'.placed /\ obs'.mxc # EmptyURI
              /\ obs'.uploaded <=> st.upload # {}
              /\ StorageKey(obs'.finalPath) \in DOMAIN ncFiles'
        /\ st.state # {} =>
              /\ st.message # {} /\ obs'.fail # "send"
              /\ ReplacementPosted(posted', obs'.evt)
        /\ RecordsHaveMessage'

\* the state record of the event of the call was written in the call
RecordWritten ==
    /\ RequestsOf(obs', "matrix", "PUT state") # {}
    /\ obs'.fail # "state"
    /\ <<obs'.evt.RoomID, obs'.evt.ID>> \in DOMAIN roomState'

\* C22: in a call of HandleMatrixEvent the upload (or its skip), the minting
\* of the token, the posting of the replacement message, the writing of the
\* state record and the cleanup of the source happen in this order, each
\* only after the one before succeeded; a state record exists for an event
\* only if its replacement message was posted.
C22_StepsInOrder ==
    [][obs'.op = "event" =>
          /\ OrderedToState
          /\ RequestsOf(obs', "admin", "DELETE") # {} => RecordWritten]_vars

\* C22 as the code has it: the cleanup of the source is requested after
\* the state record was sent, whether the record was stored or not; it is
\* requested only after the replacement message was posted.
C22_StepsInOrderButCleanup ==
    [][obs'.op = "event" =>
          /\ OrderedToState
          /\ RequestsOf(obs', "admin", "DELETE") # {} =>
                /\ RequestsOf(obs', "matrix", "PUT state") # {}
                /\ ReplacementPosted(posted', obs'.evt)]_vars

\* C22 witness: a call went through all the steps: upload, replacement
\* message, state record and cleanup, and the record and the message are in
\* the room.
C22_Witness ==
    /\ obs.op = "event" /\ obs.fail = "none" /\ obs.placed /\ obs.uploaded
    /\ \A f \in DOMAIN StepsOf(obs) : StepsOf(obs)[f] # {}
    /\ <<obs.evt.RoomID, obs.evt.ID>> \in DOMAIN roomState
    /\ ReplacementPosted(posted, obs.evt)

(***************************************************************************)
(* The events HandleMatrixEvent passes over.                               *)
(***************************************************************************)
\* nothing was sent and nothing stored, written to the room or deleted in
\* the step
NothingDone ==
    /\ obs'.reqs = <<>>
    /\ ncFiles' = ncFiles /\ dirCache' = dirCache
    /\ roomState' = roomState /\ posted' = posted /\ signedRecs' = signedRecs
    /\ hsMedia' = hsMedia

\* C23: for a message event that is sent by the bridge's own identity, or
\* is in a room without path template, or is no media message, or is an
\* edit, HandleMatrixEvent downloads nothing, sends no request to the
\* storage, writes nothing to the room and returns nil.
C23_PassedOver ==
    [][(/\ obs'.op = "event" /\ obs'.evt.Type = "m.room.message"
        /\ \/ obs'.evt.Sender = BotMXID
           \/ obs'.evt.RoomID \notin DOMAIN RoomPathTemplate
           \/ obs'.evt.MsgType \notin MediaTypes
           \/ obs'.evt.RelType = "m.replace")
       => NothingDone /\ obs'.err = "nil"]_vars

\* C23 witness: after an attachment was bridged, an edit whose content is
\* in the source storage was handled: nil, and no request.
C23_Witness ==
    /\ obs.op = "event" /\ obs.evt.Type = "m.room.message"
    /\ obs.evt.RelType = "m.replace" /\ obs.evt.MsgType \in MediaTypes
    /\ obs.evt.URL.kind = "ok" /\ obs.evt.URL.FileID \in hsMedia
    /\ obs.err = "nil" /\ obs.reqs = <<>>
    /\ posted # {} /\ DOMAIN ncFiles # {}

(***************************************************************************)
(* The bridge and the room in a loop: what the bridge sends to the room    *)
(* (the replacement message, the state event) the homeserver delivers to   *)
(* the bridge again as an event of as.Events.                              *)
(***************************************************************************)
\* the most events handled in one run of the loop
MaxDeliveries == 6

\* a message of the room as the event the homeserver delivers for it
Echo(m) ==
    Event("m.room.message", <<36, 101>>, m.RoomID, m.Sender, m.MsgType, m.RelType, FALSE,
          m.URL, m.FileName, m.MimeType, <<>>)

\* the state event of a record as the homeserver delivers it
StateEcho(roomID) ==
    Event("com.nextcloud-media-bridge.media", <<36, 115>>, roomID, BotMXID, "", "", FALSE,
          EmptyURI, <<>>, <<>>, <<>>)

\* the events the homeserver delivers for what a call o sent to the room,
\* msgs being the messages of the room after the call
EchoesOf(o, msgs) ==
    LET sent == IF o.rewritten
                THEN {m \in msgs : m.RoomID = o.evt.RoomID /\ m.RelatesTo = o.evt.ID}
                ELSE {}
        state == IF RequestsOf(o, "matrix", "PUT state") # {} /\ o.fail # "state"
                 THEN <<StateEcho(o.evt.RoomID)>> ELSE <<>>
    IN  IF sent = {} THEN {state} ELSE {<<Echo(m)>> \o state : m \in sent}

\* the room at the start: one attachment event, or two, to be delivered
EchoInit ==
    /\ inbound \in {<<m>> : m \in {Msg1, Msg2, Msg3, Msg4, Msg5, EncMsg}}
                   \cup {<<Msg1, Msg3>>, <<Msg2, Msg1>>}
    /\ running = {}
    /\ dPending = 0 /\ dPc = "idle" /\ semaphore = 0
    /\ wStart = 0 /\ wJoin = 0 /\ wHandle = 0 /\ wDefer = 0 /\ wDone = 0
    /\ dReleased = 0 /\ dLog = "none"
    /\ config \in ConfigPool
    /\ ncFiles = <<>>
    /\ dirCache = {}
    /\ roomState = <<>>
    /\ hsMedia = DOMAIN SourceMedia
    /\ posted = {}
    /\ signedRecs = {}
    /\ steps = 0
    /\ obs = [op |-> "none"]
    /\ CodecIdle /\ PartsIdle

\* the next event is handled, and what the call sent to the room is
\* delivered after the events that wait
Deliver ==
    /\ inbound # <<>>
    /\ steps < MaxDeliveries
    /\ Process(Head(inbound), FailPoints)
    /\ \E echoes \in EchoesOf(obs', posted') : inbound' = Tail(inbound) \o echoes
    /\ UNCHANGED <<running, dispatchVars>>

EchoNext == Deliver

\* a step of Deliver, told by the count of calls: Deliver can be taken
\* whenever an event waits, and every step of the loop is one of Deliver
Delivered == inbound # <<>> /\ steps < MaxDeliveries /\ steps' = steps + 1

\* the homeserver goes on delivering while an event waits
SpecEcho == EchoInit /\ [][EchoNext]_vars /\ WF_steps(Delivered)

\* the step handled an event that the bridge itself brought about: the
\* replacement message or the state event
EchoHandled(o) == o.op = "event" /\ o.evt.ID \in {<<36, 101>>, <<36, 115>>}

\* C24: the replacement message of a bridged attachment, delivered to the
\* bridge as an event, causes no upload, no further replacement message and
\* no state record; from one attachment event on, the bridge and the room
\* come to rest, with nothing of the bridge left to deliver.
C24_EchoComesToRest ==
    /\ [][EchoHandled(obs') => (NothingDone /\ obs'.err = "nil" /\ inbound' = Tail(inbound))]_vars
    /\ <>[](inbound = <<>>)

\* C24 witness: the replacement message of a bridged attachment was handled
\* and nothing is left to deliver.
C24_Witness ==
    /\ obs.op = "event" /\ obs.evt.ID = <<36, 101>> /\ obs.evt.RelType = "m.replace"
    /\ obs.evt.URL.Homeserver = ServerName
    /\ obs.evt \in {Echo(m) : m \in posted}
    /\ obs.reqs = <<>>
    /\ inbound = <<>>

(***************************************************************************)
(* Attachments whose pointer already names the media proxy.                *)
(***************************************************************************)
\* the event of the step is an unencrypted attachment that is not passed
\* over and whose URL names the media proxy
PointsAtProxy(o) ==
    /\ o.op = "event" /\ o.evt.Type = "m.room.message" /\ ~PassesOver(o.evt)
    /\ ~o.evt.HasFile /\ o.evt.URL.kind = "ok"
    /\ o.evt.URL.Homeserver = ServerName

\* C25: an unencrypted attachment whose URL names the media proxy and whose
\* file id decodes under the secret is skipped: nothing is downloaded or
\* uploaded and nil is returned; when the file id does not decode the call
\* goes on as for any attachment, with the download of the content.
C25_AlreadyProxied ==
    [][PointsAtProxy(obs') =>
          IF DecodeMediaID(mediaIDSecret, obs'.evt.URL.FileID).ok
          THEN NothingDone /\ obs'.err = "nil"
          ELSE /\ obs'.reqs # <<>>
               /\ obs'.reqs[1] = Req("matrix", "GET media", ContentURIString(obs'.evt.URL))
               /\ obs'.err # "nil"]_vars

\* C25 witness: an attachment with a media id of the bridge in its URL was
\* skipped.
C25_Witness ==
    /\ PointsAtProxy(obs)
    /\ DecodeMediaID(mediaIDSecret, obs.evt.URL.FileID).ok
    /\ obs.reqs = <<>> /\ obs.err = "nil"

\* an attachment whose URL names the media proxy with a file id that does
\* not decode was handled: its download was asked for
ForeignPointerDownloaded ==
    /\ PointsAtProxy(obs)
    /\ ~DecodeMediaID(mediaIDSecret, obs.evt.URL.FileID).ok
    /\ obs.reqs # <<>>

(***************************************************************************)
(* NextcloudClient.EnsureDirectories and CreateDirectory, called by        *)
(* several goroutines on one client.  The steps of a call are taken one    *)
(* at a time: the look into dirCache, the MKCOL request with its answer,   *)
(* and the check of the status with the store into dirCache.               *)
(***************************************************************************)
\* the goroutines that use the client
Workers == {1, 2}

\* the most calls of EnsureDirectories, and deletions on the server, in a run
MaxClientCalls == 3

\* a CreateDirectory that takes created for the only success
Accepted_CreatedOnly(status) == status = StatusCreated

\* a CreateDirectory that stores the path whatever the answer was
Accepted_Any(status) == TRUE

\* CreateDirectory: the statuses after which the path is stored and nil is
\* returned
Accepted(status) ==
    status \in {StatusCreated, StatusConflict, StatusMethodNotAllowed}

\* the directory a directory lies in, the empty text for one at the top
ParentOf(dir) ==
    IF \E i \in 1..Len(dir) : dir[i] = Slash
    THEN SubSeq(dir, 1, (CHOOSE i \in 1..Len(dir) :
                            dir[i] = Slash /\ \A j \in (i + 1)..Len(dir) : dir[j] # Slash) - 1)
    ELSE <<>>

\* the answers of the server to MKCOL dir: method-not-allowed for a
\* directory that is there, conflict when the one above is missing,
\* created otherwise; or a failure of the server or of the transport
MkcolAnswers(dirs, dir) ==
    { [status |-> NoResponse, dirs |-> dirs],
      [status |-> StatusInternalServerError, dirs |-> dirs],
      IF dir \in dirs THEN [status |-> StatusMethodNotAllowed, dirs |-> dirs]
      ELSE IF ParentOf(dir) # <<>> /\ ParentOf(dir) \notin dirs
      THEN [status |-> StatusConflict, dirs |-> dirs]
      ELSE [status |-> StatusCreated, dirs |-> dirs \cup {dir}] }

\* the remote paths of the calls: a/b/c/f, /a/b/f, a/f, f and a//b/f
DirPaths ==
    { <<97, 47, 98, 47, 99, 47, 102>>, <<47, 97, 47, 98, 47, 102>>, <<97, 47, 102>>,
      <<102>>, <<97, 47, 47, 98, 47, 102>> }

\* a goroutine that is in no call
NoCall ==
    [pc |-> "idle", path |-> <<>>, dirs |-> <<>>, k |-> 0, current |-> <<>>,
     status |-> NoResponse, err |-> "none", log |-> <<>>]

ClientInit ==
    /\ nDirs \in {{}, {<<97>>}}
    /\ nFiles = <<>>
    /\ nCache = {}
    /\ nWorker = [w \in Workers |-> NoCall]
    /\ nAnswers = {}
    /\ nCalls = 0
    /\ CodecIdle /\ DispatchIdle /\ BridgeIdle /\ PathIdle /\ LoadIdle

\* EnsureDirectories(remotePath) is called: trimmed, dirs, current
Begin(w) ==
    /\ nWorker[w].pc = "idle"
    /\ nCalls < MaxClientCalls
    /\ \E remotePath \in DirPaths :
          nWorker' = [nWorker EXCEPT ![w] =
              [NoCall EXCEPT !.pc = "loop", !.path = remotePath,
                  !.dirs = Split(PathDir(TrimLeftSlash(remotePath)), Slash), !.k = 1]]
    /\ nCalls' = nCalls + 1
    /\ UNCHANGED <<nDirs, nFiles, nCache, nAnswers, wholeVars, pathVars, loadVars>>

\* the index of the next element of dirs that the loop does not skip, one
\* past the end when there is none
RECURSIVE NextIndex(_, _)
NextIndex(dirs, k) ==
    IF k > Len(dirs) THEN k
    ELSE IF dirs[k] = <<Dot>> \/ dirs[k] = <<>> THEN NextIndex(dirs, k + 1)
    ELSE k

\* a loop that calls CreateDirectory with the name of the directory alone
NextDir_Bare(w) == nWorker[w].dirs[NextIndex(nWorker[w].dirs, nWorker[w].k)]

\* the path the loop of goroutine w calls CreateDirectory with next
NextDir(w) ==
    LET me == nWorker[w]
        k == NextIndex(me.dirs, me.k)
    IN  IF me.current = <<>> THEN me.dirs[k] ELSE me.current \o <<Slash>> \o me.dirs[k]

\* the loop of EnsureDirectories up to the look into dirCache of the next
\* CreateDirectory: at the end of dirs nil is returned; a cached path makes
\* CreateDirectory return nil at once
Iterate(w) ==
    /\ nWorker[w].pc = "loop"
    /\ LET me == nWorker[w]
           k == NextIndex(me.dirs, me.k)
       IN  nWorker' = [nWorker EXCEPT ![w] =
              IF k > Len(me.dirs) THEN [me EXCEPT !.pc = "idle", !.err = "nil", !.k = k]
              ELSE IF NextDir(w) \in nCache
              THEN [me EXCEPT !.k = k + 1, !.current = NextDir(w),
                       !.log = Append(me.log, [path |-> NextDir(w), sent |-> FALSE,
                                               status |-> NoResponse])]
              ELSE [me EXCEPT !.pc = "do", !.k = k + 1, !.current = NextDir(w)]]
    /\ UNCHANGED <<nDirs, nFiles, nCache, nAnswers, nCalls, wholeVars, pathVars, loadVars>>

\* c.client.Do(req): the MKCOL request is sent and answered
Do(w) ==
    /\ nWorker[w].pc = "do"
    /\ \E answer \in MkcolAnswers(nDirs, nWorker[w].current) :
          /\ nDirs' = answer.dirs
          /\ nAnswers' = nAnswers \cup {<<nWorker[w].current, answer.status>>}
          /\ nWorker' = [nWorker EXCEPT ![w].pc = "resp", ![w].status = answer.status]
    /\ UNCHANGED <<nFiles, nCache, nCalls, wholeVars, pathVars, loadVars>>

\* the rest of CreateDirectory: an error for a request that failed or a
\* status that is not accepted, which EnsureDirectories returns; otherwise
\* the path is stored in dirCache and the loop goes on
Check(w) ==
    /\ nWorker[w].pc = "resp"
    /\ LET me == nWorker[w]
           logged == Append(me.log, [path |-> me.current, sent |-> TRUE,
                                     status |-> me.status])
       IN  IF Accepted(me.status)
           THEN /\ nCache' = nCache \cup {me.current}
                /\ nWorker' = [nWorker EXCEPT ![w] = [me EXCEPT !.pc = "loop", !.log = logged]]
           ELSE /\ nCache' = nCache
                /\ nWorker' = [nWorker EXCEPT ![w] =
                                  [me EXCEPT !.pc = "idle", !.err = "error", !.log = logged]]
    /\ UNCHANGED <<nDirs, nFiles, nAnswers, nCalls, wholeVars, pathVars, loadVars>>

\* a directory is deleted on the server, with all below it, by someone else
DropDirectory ==
    /\ nCalls < MaxClientCalls
    /\ \E dir \in nDirs :
          nDirs' = {d \in nDirs : d # dir /\ ~HasPrefix(d, dir \o <<Slash>>)}
    /\ nCalls' = nCalls + 1
    /\ UNCHANGED <<nFiles, nCache, nWorker, nAnswers, wholeVars, pathVars, loadVars>>

ClientNext ==
    \/ \E w \in Workers : Begin(w)
    \/ \E w \in Workers : Iterate(w)
    \/ \E w \in Workers : Do(w)
    \/ \E w \in Workers : Check(w)
    \/ DropDirectory

SpecClient == ClientInit /\ [][ClientNext]_vars

\* goroutine w takes the step from this state to the next
StepOf(w) == nWorker'[w] # nWorker[w]

\* every path in dirCache was the path of an MKCOL request that was answered
\* with created, conflict or method-not-allowed
CachedAfterSuccess ==
    \A dir \in nCache : \E status \in {201, 409, 405} : <<dir, status>> \in nAnswers

\* a CreateDirectory whose request failed or was answered with another
\* status leaves dirCache as it is and returns an error
FailureLeavesCache ==
    \A w \in Workers :
        (StepOf(w) /\ nWorker[w].pc = "resp" /\ nWorker[w].status \notin {201, 409, 405})
        => /\ nCache' = nCache
           /\ nWorker'[w].pc = "idle" /\ nWorker'[w].err = "error"

\* a CreateDirectory on a path in dirCache sends no request and returns nil:
\* the loop of EnsureDirectories goes on
CachedSendsNothing ==
    \A w \in Workers :
        (/\ StepOf(w) /\ nWorker[w].pc = "loop"
         /\ NextIndex(nWorker[w].dirs, nWorker[w].k) <= Len(nWorker[w].dirs)
         /\ NextDir(w) \in nCache)
        => /\ nAnswers' = nAnswers /\ nDirs' = nDirs /\ nCache' = nCache
           /\ nWorker'[w].pc = "loop" /\ nWorker'[w].err = "none"

\* C26: a path is in the Directory-Creation Cache only if an MKCOL request
\* for that very path was answered with created, conflict or
\* method-not-allowed; a CreateDirectory that fails leaves the cache as it
\* is and returns an error; a CreateDirectory on a cached path sends no
\* request and succeeds.
C26_DirectoryCache ==
    /\ []CachedAfterSuccess
    /\ [][FailureLeavesCache /\ CachedSendsNothing]_vars

\* C26 witness: one call found a path in the cache and sent nothing for it,
\* one call failed, and the cache holds a path.
C26_Witness ==
    /\ \E w \in Workers : \E i \in 1..Len(nWorker[w].log) : ~nWorker[w].log[i].sent
    /\ \E w \in Workers : nWorker[w].err = "error"
    /\ nCache # {}

\* the names between the slashes of a path, the empty ones left out
Segments(remotePath) == SelectSeq(Split(remotePath, Slash), LAMBDA seg : seg # <<>>)

\* the directories a path lies in, from the outermost to the innermost:
\* for a/b/c/f they are a, a/b and a/b/c
Ancestors(remotePath) ==
    [i \in 1..(Len(Segments(remotePath)) - 1) |-> JoinSlash(SubSeq(Segments(remotePath), 1, i))]

\* a call of CreateDirectory of the log returned nil
Created(entry) == ~entry.sent \/ entry.status \in {201, 409, 405}

\* C27: EnsureDirectories(path) calls CreateDirectory on the directories
\* the path lies in, from the outermost to the innermost and never on the
\* path itself; it stops at the first call that fails and returns its
\* error, with no call for a directory further in.
C27_AncestorsInOrder ==
    \A w \in Workers :
        LET me == nWorker[w]
            anc == Ancestors(me.path)
        IN  /\ Len(me.log) <= Len(anc)
            /\ \A i \in 1..Len(me.log) : me.log[i].path = anc[i]
            /\ \A i \in 1..(Len(me.log) - 1) : Created(me.log[i])
            /\ me.err = "nil" => Len(me.log) = Len(anc) /\ \A i \in 1..Len(me.log) : Created(me.log[i])
            /\ me.err = "error" => me.log # <<>> /\ ~Created(me.log[Len(me.log)])
            /\ (me.log # <<>> /\ ~Created(me.log[Len(me.log)])) => me.pc = "idle" /\ me.err = "error"

\* C27 witness: EnsureDirectories(a/b/c/f) returned the error of
\* CreateDirectory(a/b), after CreateDirectory(a) and with no call for a/b/c.
C27_Witness ==
    \E w \in Workers :
        /\ nWorker[w].pc = "idle" /\ nWorker[w].err = "error"
        /\ nWorker[w].path = <<97, 47, 98, 47, 99, 47, 102>>
        /\ Len(nWorker[w].log) = 2
        /\ nWorker[w].log[1].path = <<97>> /\ nWorker[w].log[2].path = <<97, 47, 98>>

\* the calls of CreateDirectory of goroutine w that sent a request and got
\* the status
AnsweredWith(w, dir, status) ==
    {i \in 1..Len(nWorker[w].log) :
        /\ nWorker[w].log[i].sent /\ nWorker[w].log[i].path = dir
        /\ nWorker[w].log[i].status = status}

\* two goroutines sent MKCOL for the same path, neither having found it in
\* dirCache; one was answered created, the other method-not-allowed
RacedOn(w, v, dir) ==
    /\ w # v
    /\ AnsweredWith(w, dir, 201) # {}
    /\ AnsweredWith(v, dir, 405) # {}

\* C28: when two goroutines call CreateDirectory for the same path that is
\* not cached and one is answered created, the other method-not-allowed,
\* neither call returns an error and the path is in the cache after both;
\* a path stored by one goroutine is not lost by the store of another.
C28_ConcurrentCreate ==
    /\ [](\A w \in Workers, v \in Workers, dir \in nCache \cup nDirs :
             RacedOn(w, v, dir) =>
                /\ dir \in nCache
                /\ \A i \in AnsweredWith(w, dir, 201) : Created(nWorker[w].log[i])
                /\ \A i \in AnsweredWith(v, dir, 405) :
                      ~(nWorker[v].err = "error" /\ i = Len(nWorker[v].log)))
    /\ [](\A w \in Workers : \A i \in 1..Len(nWorker[w].log) :
             (nWorker[w].log[i].sent /\ Created(nWorker[w].log[i]))
                => nWorker[w].log[i].path \in nCache)
    /\ [][nCache \subseteq nCache']_vars

\* C28 witness: both goroutines sent MKCOL a, one was answered created and
\* the other method-not-allowed; both calls of EnsureDirectories returned
\* nil, and the cache holds a and a directory that one of them stored
\* after it.
C28_Witness ==
    /\ RacedOn(1, 2, <<97>>)
    /\ \A w \in Workers : nWorker[w].pc = "idle" /\ nWorker[w].err = "nil"
    /\ <<97>> \in nCache /\ <<97, 47, 98>> \in nCache

(***************************************************************************)
(* The placement of HandleMatrixEvent (Stat of the rendered path, the loop *)
(* over the numbered candidates, UploadReader) in several goroutines whose *)
(* events render to one path.  Every request to the storage is a step.     *)
(***************************************************************************)
\* the path the events render to: /m/u/a.t
RacePath == <<47, 109, 47, 117, 47, 97, 46, 116>>

\* the numbered candidates of the path, computed once
Candidates == [i \in 1..maxCounter |-> addCounterSuffix(RacePath, i)[1]]

\* the contents of the events: they differ, in length as well
RaceContent == (1 :> Content(1, 2)) @@ (2 :> Content(3, 3))

\* a storage that holds the given paths, with content of other events
Holding(paths) == [k \in {StorageKey(q) : q \in paths} |-> Content(9, 5)]

\* storages in which two goroutines work: empty, with the path, with the
\* path and its first candidates
SmallStorages ==
    { Holding({}), Holding({RacePath}), Holding({RacePath, Candidates[1]}),
      Holding({RacePath, Candidates[1], Candidates[2]}) }

\* storages in which one goroutine works: with the path and all its
\* candidates, and with all but the last candidate
LargeStorages ==
    { Holding({RacePath} \cup {Candidates[i] : i \in 1..maxCounter}),
      Holding({RacePath} \cup {Candidates[i] : i \in 1..(maxCounter - 1)}) }

\* a goroutine at the Stat of the rendered path, with its content
AtStat(content) ==
    [pc |-> "stat", content |-> content, i |-> 0, final |-> <<>>, present |-> {},
     absent |-> {}, put |-> <<>>, err |-> "none"]

RaceInit ==
    /\ nFiles \in SmallStorages \cup LargeStorages
    /\ nWorker = [w \in Workers |->
                     IF w = 1 \/ nFiles \in SmallStorages THEN AtStat(RaceContent[w])
                     ELSE [AtStat(RaceContent[w]) EXCEPT !.pc = "idle"]]
    /\ nDirs = {} /\ nCache = {} /\ nAnswers = {} /\ nCalls = 0
    /\ CodecIdle /\ DispatchIdle /\ BridgeIdle /\ PathIdle /\ LoadIdle

\* for i := 1; i <= 1000; i++: the loop ends after candidate i
LoopEnds(i) == i >= maxCounter

\* a loop that goes on with the counter after the next
NextCounter_Skip(i) == i + 2

\* i++
NextCounter(i) == i + 1

\* h.nextcloud.Stat(nextcloudPath): an absent path is the final path; a
\* file of the length of the content is reused; otherwise the loop over
\* the candidates begins
StatPath(w) ==
    /\ nWorker[w].pc = "stat"
    /\ LET me == nWorker[w]
           found == Stat(nFiles, RacePath)
       IN  nWorker' = [nWorker EXCEPT ![w] =
              IF ~found.exists
              THEN [me EXCEPT !.pc = "put", !.final = RacePath, !.absent = {RacePath}]
              ELSE IF me.content.len > 0 /\ found.size = me.content.len
              THEN [me EXCEPT !.pc = "done", !.final = RacePath, !.present = {RacePath},
                              !.err = "nil"]
              ELSE [me EXCEPT !.pc = "cand", !.i = 1, !.present = {RacePath}]]
    /\ UNCHANGED <<nDirs, nFiles, nCache, nAnswers, nCalls, wholeVars, pathVars, loadVars>>

\* h.nextcloud.Stat(candidatePath) in the loop: the first candidate that is
\* absent is the final path; after the last candidate the final path is
\* still the rendered one, and an error is returned
StatCandidate(w) ==
    /\ nWorker[w].pc = "cand"
    /\ LET me == nWorker[w]
           candidatePath == Candidates[me.i]
       IN  nWorker' = [nWorker EXCEPT ![w] =
              IF ~Stat(nFiles, candidatePath).exists
              THEN [me EXCEPT !.pc = "put", !.final = candidatePath,
                              !.absent = {candidatePath}]
              ELSE IF LoopEnds(me.i)
              THEN [me EXCEPT !.pc = "done", !.err = "nofree",
                              !.present = me.present \cup {candidatePath}]
              ELSE [me EXCEPT !.i = NextCounter(me.i),
                              !.present = me.present \cup {candidatePath}]]
    /\ UNCHANGED <<nDirs, nFiles, nCache, nAnswers, nCalls, wholeVars, pathVars, loadVars>>

\* h.nextcloud.UploadReader(finalPath, ...): the PUT stores the content at
\* the path, over what is there, or fails
Upload(w) ==
    /\ nWorker[w].pc = "put"
    /\ \/ /\ nFiles' = UploadReader(nFiles, nWorker[w].final, nWorker[w].content)
          /\ nWorker' = [nWorker EXCEPT ![w].pc = "done", ![w].put = nWorker[w].final,
                                        ![w].err = "nil"]
       \/ /\ nFiles' = nFiles
          /\ nWorker' = [nWorker EXCEPT ![w].pc = "done", ![w].err = "upload"]
    /\ UNCHANGED <<nDirs, nCache, nAnswers, nCalls, wholeVars, pathVars, loadVars>>

RaceNext ==
    \/ \E w \in Workers : StatPath(w)
    \/ \E w \in Workers : StatCandidate(w)
    \/ \E w \in Workers : Upload(w)

SpecRace == RaceInit /\ [][RaceNext]_vars

\* the placement of goroutine w ended without error: its token is minted
\* for its final path
PlacementDone(w) == nWorker[w].pc = "done" /\ nWorker[w].err = "nil"

\* C29: when two attachment events with differing content and the same
\* rendered path are handled at the same time, no file written for one is
\* overwritten by the upload of the other: the final path of each event,
\* to which its token refers, holds the content of that event.
C29_NoOverwrite ==
    \A w \in Workers :
        PlacementDone(w) =>
            /\ StorageKey(nWorker[w].final) \in DOMAIN nFiles
            /\ nFiles[StorageKey(nWorker[w].final)] = nWorker[w].content

\* C30: on a collision the candidate with the smallest counter in 1..1000
\* that Stat reports absent is taken and the content uploaded there; when
\* all 1000 candidates exist an error is returned and nothing is uploaded.
\* An upload goes only to a path that Stat reported absent in the same
\* call.
C30_SmallestFreeCandidate ==
    \A w \in Workers :
        LET me == nWorker[w]
        IN  /\ me.put # <<>> => me.put = me.final /\ me.put \in me.absent
            /\ me.final # <<>> /\ me.i >= 1 =>
                  /\ me.final = Candidates[me.i]
                  /\ me.present = {RacePath} \cup {Candidates[j] : j \in 1..(me.i - 1)}
            /\ me.err = "nofree" =>
                  /\ me.put = <<>> /\ me.absent = {}
                  /\ me.present = {RacePath} \cup {Candidates[j] : j \in 1..1000}
            /\ me.i <= 1000

\* C30 witness: the path, name_1 and name_2 exist; both events were
\* uploaded to numbered candidates, the first of them to name_3.
C30_Witness ==
    /\ \A w \in Workers : PlacementDone(w) /\ nWorker[w].put # <<>>
    /\ \E w \in Workers :
          /\ nWorker[w].put = Candidates[3]
          /\ nWorker[w].present = {RacePath, Candidates[1], Candidates[2]}

\* name_1 to name_999 exist; the content was uploaded to name_1000
LastCandidateTaken ==
    /\ nWorker[1].pc = "done" /\ nWorker[1].err = "nil"
    /\ nWorker[1].put = Candidates[1000]
    /\ nFiles[StorageKey(Candidates[1000])] = nWorker[1].content

\* all 1000 candidates exist: an error was returned after the Stat of each
\* and nothing was uploaded
NoCandidateFree ==
    /\ nWorker[1].pc = "done" /\ nWorker[1].err = "nofree"
    /\ Cardinality(nWorker[1].present) = 1001
    /\ nWorker[1].put = <<>>

---------------------------------------------------------------------------
\* Redactions of events with a record the bridge signed

\* the last step handled a redaction whose record the bridge signed, and
\* the record was fetched
RedactedSigned ==
    /\ Redacted
    /\ obs.fail # "fetch"
    /\ RedactedKey \in DOMAIN roomState
    /\ roomState[RedactedKey] \in signedRecs
    /\ roomState[RedactedKey].Path # <<>>

\* C31: a redaction whose target has a record the bridge signed sends one
\* DELETE, for the record's path; an answer of not found, OK or no content
\* returns no error, any other answer and a failure of the transport return
\* an error.
C31_DeleteOutcome ==
    RedactedSigned =>
        /\ Cardinality(StorageDeletes) = 1
        /\ \A i \in StorageDeletes :
              obs.reqs[i].target = StorageKey(roomState[RedactedKey].Path)
        /\ obs.status \in {StatusNotFound, StatusOK, StatusNoContent}
              => obs.err = "nil"
        /\ obs.status \notin {StatusNotFound, StatusOK, StatusNoContent}
              => obs.err # "nil"
        /\ obs.err = "nil"
              => StorageKey(roomState[RedactedKey].Path) \notin DOMAIN ncFiles

\* a redaction of an event whose file was gone already was answered not
\* found and returned no error
C31_Witness ==
    /\ RedactedSigned
    /\ obs.status = StatusNotFound
    /\ obs.err = "nil"
    /\ StorageDeletes # {}

\* a redaction was answered with a failure of the server, another met a
\* failure of the transport
DeleteRefused ==
    RedactedSigned /\ obs.status = StatusInternalServerError /\ obs.err = "delete"
DeleteUnanswered ==
    RedactedSigned /\ obs.fail = "transport" /\ obs.err = "delete"

---------------------------------------------------------------------------
\* The cleanup of the source media

\* C32: the deletion of the source media is requested only in a call that
\* posted the replacement message, after that message, and only with admin
\* deletion enabled and an admin access token set; when the request fails
\* the call returns no error, the source media stays, and the uploaded
\* file, the replacement message and the signed state record are there.
C32_CleanupAfterRewrite ==
    [][obs'.op = "event" =>
          /\ RequestsOf(obs', "admin", "DELETE") # {} =>
                /\ obs'.rewritten
                /\ config.adminEnabled /\ config.adminToken
                /\ ReplacementPosted(posted', obs'.evt)
                /\ RequestsOf(obs', "matrix", "PUT message") # {}
                /\ Before(RequestsOf(obs', "matrix", "PUT message"),
                          RequestsOf(obs', "admin", "DELETE"))
          /\ FailsAt("admin") =>
                /\ obs'.err = "nil"
                /\ RequestsOf(obs', "admin", "DELETE") # {}
                /\ hsMedia' = hsMedia
                /\ StorageKey(obs'.finalPath) \in DOMAIN ncFiles'
                /\ ReplacementPosted(posted', obs'.evt)
                /\ <<obs'.evt.RoomID, obs'.evt.ID>> \in DOMAIN roomState'
                /\ roomState'[<<obs'.evt.RoomID, obs'.evt.ID>>] \in signedRecs'
                /\ roomState'[<<obs'.evt.RoomID, obs'.evt.ID>>].Path = obs'.finalPath]_vars

\* the deletion of the source media was requested and failed: the call
\* returned no error and file, message and record are there
C32_Witness ==
    /\ obs.op = "event" /\ obs.fail = "admin" /\ obs.err = "nil"
    /\ obs.rewritten /\ obs.uploaded
    /\ RequestsOf(obs, "admin", "DELETE") # {}
    /\ obs.evt.URL.FileID \in hsMedia
    /\ StorageKey(obs.finalPath) \in DOMAIN ncFiles
    /\ <<obs.evt.RoomID, obs.evt.ID>> \in DOMAIN roomState

\* a call rewrote the message and, admin deletion being enabled without a
\* token, asked for no deletion
RewrittenWithoutCleanup ==
    /\ obs.op = "event" /\ obs.rewritten
    /\ config.adminEnabled /\ ~config.adminToken
    /\ RequestsOf(obs, "admin", "DELETE") = {}

---------------------------------------------------------------------------
\* The refusals of DecodeMediaID

\* the part of the decoded media id before its first "_", the part after
\* it, and whether the second is the signature of the first under the key
\* of the decoding
DecodedCut == IndexByte(cToken, 95)
DecodedPayload == SubSeq(cToken, 1, DecodedCut - 1)
DecodedSignature == Drop(cToken, DecodedCut + 1)
DecodedVerifies ==
    DecodedCut # 0 /\ signMediaID(cKey, DecodedPayload) = DecodedSignature

\* C33: DecodeMediaID refuses a media id without the separator, with a wrong
\* signature, with a payload that is no base64 or no reference, or with an
\* empty path, each time with the one error and the empty reference; a
\* reference is returned only for a media id whose part after the first "_"
\* is the signature of the part before it, and it is the reference that
\* part decodes to.
C33_FailsClosed ==
    cPhase \in {"decoded", "checked"} =>
        /\ ~cResult.ok => cResult = InvalidMediaID
        /\ DecodedCut = 0 => cResult = InvalidMediaID
        /\ DecodedCut # 0 =>
              \A verifies \in {DecodedVerifies}, payload \in {Base64Decode(DecodedPayload)} :
                 \A parsed \in {UnmarshalRef(payload.bytes)} :
                    /\ ~verifies => cResult = InvalidMediaID
                    /\ ~payload.ok => cResult = InvalidMediaID
                    /\ ~parsed.ok => cResult = InvalidMediaID
                    /\ parsed.ref.Path = <<>> => cResult = InvalidMediaID
                    /\ cResult.ok =>
                          /\ verifies
                          /\ cResult.ref = parsed.ref
                          /\ cResult.ref.Path # <<>>

\* a media id whose signature verifies and whose payload is no base64 was
\* refused
C33_Witness ==
    /\ cPhase = "checked" /\ DecodedVerifies
    /\ ~Base64Decode(DecodedPayload).ok
    /\ cResult = InvalidMediaID

\* the other refusals: no separator, a wrong signature, a signed payload
\* that is no reference, a signed reference without a path
RefusedUnseparated ==
    cPhase = "checked" /\ DecodedCut = 0 /\ cToken # <<>> /\ cResult = InvalidMediaID
RefusedUnsigned ==
    /\ cPhase = "checked" /\ DecodedCut # 0 /\ ~DecodedVerifies
    /\ UnmarshalRef(Base64Decode(DecodedPayload).bytes).ok
    /\ cResult = InvalidMediaID
RefusedUnparsable ==
    /\ cPhase = "checked" /\ DecodedVerifies /\ Base64Decode(DecodedPayload).ok
    /\ ~UnmarshalRef(Base64Decode(DecodedPayload).bytes).ok
    /\ cResult = InvalidMediaID
RefusedPathless ==
    /\ cPhase = "checked" /\ DecodedVerifies
    /\ UnmarshalRef(Base64Decode(DecodedPayload).bytes).ok
    /\ cResult = InvalidMediaID
PresentedAccepted ==
    cPhase = "checked" /\ cResult.ok

---------------------------------------------------------------------------
\* Encrypted attachments without a crypto helper

\* C34: without a crypto helper, for a message with an encrypted attachment
\* HandleMatrixEvent downloads nothing, sends nothing to the storage, writes
\* nothing to the room and returns nil.
C34_EncryptedSkipped ==
    [][(/\ obs'.op = "event" /\ obs'.evt.Type = "m.room.message"
        /\ obs'.evt.HasFile /\ ~config.crypto)
       => NothingDone /\ hsMedia' = hsMedia /\ obs'.err = "nil"]_vars

\* after an attachment was bridged, an encrypted attachment of the user in
\* the room with a template, whose content is in the source storage, was
\* handled without a crypto helper: nil, and no request
C34_Witness ==
    /\ obs.op = "event" /\ obs.evt.Type = "m.room.message"
    /\ obs.evt.HasFile /\ ~config.crypto
    /\ obs.evt.Sender = UserMXID /\ obs.evt.RoomID \in DOMAIN RoomPathTemplate
    /\ obs.evt.MsgType \in MediaTypes /\ obs.evt.RelType # "m.replace"
    /\ obs.evt.URL.kind = "ok" /\ obs.evt.URL.FileID \in hsMedia
    /\ obs.err = "nil" /\ obs.reqs = <<>>
    /\ posted # {} /\ DOMAIN ncFiles # {}

\* with a crypto helper the encrypted attachment was bridged
EncryptedBridged ==
    /\ obs.op = "event" /\ obs.evt.Type = "m.room.message"
    /\ obs.evt.HasFile /\ config.crypto /\ obs.rewritten

---------------------------------------------------------------------------
\* Where DecodeMediaID splits a media id of EncodeMediaID

\* C35: the first "_" of every media id EncodeMediaID returns is the
\* separator EncodeMediaID wrote between the encoded payload and the
\* signature, so DecodeMediaID splits the media id there.
C35_SplitAtSeparator ==
    (cPhase \in {"encoded", "decoded"} /\ cPos = 0)
    => IndexByte(cToken, 95) = SeparatorPos

\* the unchanged media id of a reference with a path was refused under the
\* secret it was signed with, the split being before the separator
SplitInsidePayload ==
    /\ cPhase = "decoded" /\ cPos = 0 /\ cKey = cSecret
    /\ cRef.Path # <<>>
    /\ IndexByte(cToken, 95) < SeparatorPos
    /\ cResult = InvalidMediaID

---------------------------------------------------------------------------
\* State records presented under the key of another event.  The state
\* event of an event id is room state: a room member with the power to send
\* state events can write one, and the content signed is the path, the
\* filename and the content URI of the record.

\* the keys a redaction of the pool looks up
RedactableKeys ==
    {<<r.RoomID, r.Redacts>> : r \in {e \in RedactionPool : e.Redacts # <<>>}}

\* a room member writes the record stored for one event under the key of
\* another event
ReplayState ==
    /\ steps < MaxSteps
    /\ \E from \in DOMAIN roomState, to \in RedactableKeys :
          /\ to # from
          /\ roomState' = [k \in DOMAIN roomState \cup {to} |->
                              IF k = to THEN roomState[from] ELSE roomState[k]]
    /\ obs' = [op |-> "replay"]
    /\ steps' = steps + 1
    /\ UNCHANGED <<config, ncFiles, dirCache, hsMedia, posted, signedRecs, codecVars,
                   dispatchVars, deliveryVars, partVars>>

ReplayNext == HandleMatrixEvent \/ ReplayState

SpecReplay == BridgeInit /\ [][ReplayNext]_vars

\* the paths of the files the bridge stored for an event: those its
\* replacement messages for the event point to
StoredFor(roomID, eventID) ==
    {k[1] : k \in {j \in DOMAIN Minted :
                     \E m \in posted : /\ m.RoomID = roomID /\ m.RelatesTo = eventID
                                        /\ m.URL = Minted[j].mxc}}

\* C36: a redaction of an event deletes only a file the bridge stored for
\* that event; a signed record written for another event and put under the
\* event's key by a room member leads to no deletion.
C36_OnlyOwnFile ==
    (Called /\ Redacted) =>
        \A i \in StorageDeletes :
            \E path \in StoredFor(obs.evt.RoomID, obs.evt.Redacts) :
                obs.reqs[i].target = StorageKey(path)

\* the redaction of an event for which the bridge stored nothing has
\* deleted the file of another event
ForeignFileDeleted ==
    /\ Redacted /\ obs.err = "nil" /\ obs.status = StatusNoContent
    /\ StorageDeletes # {}
    /\ StoredFor(obs.evt.RoomID, obs.evt.Redacts) = {}
    /\ \E m \in posted : m.RelatesTo # obs.evt.Redacts

\* the redaction of an event has deleted the file the bridge stored for it
OwnFileDeleted ==
    /\ Redacted /\ obs.err = "nil" /\ obs.status = StatusNoContent
    /\ \A i \in StorageDeletes :
          \E path \in StoredFor(obs.evt.RoomID, obs.evt.Redacts) :
             obs.reqs[i].target = StorageKey(path)
    /\ StorageDeletes # {}

---------------------------------------------------------------------------
\* Redactions and the files of other events

\* the paths the media id of a replacement message refers to
PathsOf(m) == {k[1] : k \in {j \in DOMAIN Minted : m.URL = Minted[j].mxc}}

\* the replacement messages in the room for other events than the one the
\* handled redaction names
OtherReplacements ==
    {m \in posted : m.RoomID # obs'.evt.RoomID \/ m.RelatesTo # obs'.evt.Redacts}

\* C37: the redaction of an event deletes no file that the media id minted
\* for a different event refers to: a file such a media id refers to is
\* there after the redaction when it was there before.
C37_OtherTokensKeepFile ==
    [][(obs'.op = "event" /\ obs'.evt.Type = "m.room.redaction") =>
          \A m \in OtherReplacements : \A path \in PathsOf(m) :
              StorageKey(path) \in DOMAIN ncFiles
                  => StorageKey(path) \in DOMAIN ncFiles']_vars

\* after the redaction of one event the media id minted for another event,
\* whose upload was skipped, refers to no file
SharedFileDeleted ==
    /\ Redacted /\ obs.err = "nil" /\ obs.status = StatusNoContent
    /\ \E m \in posted :
          /\ m.RoomID = obs.evt.RoomID /\ m.RelatesTo # obs.evt.Redacts
          /\ <<m.RoomID, m.RelatesTo>> \in DOMAIN roomState
          /\ PathsOf(m) # {}
          /\ \A path \in PathsOf(m) : StorageKey(path) \notin DOMAIN ncFiles

---------------------------------------------------------------------------
\* Events of the bridge's own identity and of rooms without a template

\* C38: for an event of a room without path template, and for an event sent
\* by the bridge's own identity, HandleMatrixEvent sends no request to the
\* storage, be the event a message or a redaction.
C38_ExcludedNoStorage ==
    (/\ obs.op = "event"
     /\ \/ obs.evt.RoomID \notin DOMAIN RoomPathTemplate
        \/ obs.evt.Sender = BotMXID)
    => NoStorageRequest

\* a redaction sent by the bridge's own identity has deleted a file
OwnRedactionDeletes ==
    /\ Redacted /\ obs.evt.Sender = BotMXID
    /\ obs.err = "nil" /\ obs.status = StatusNoContent
    /\ StorageDeletes # {}

\* a redaction in the room without a template was handled and sent nothing
\* to the storage
UntemplatedRedaction ==
    /\ Redacted /\ obs.evt.RoomID \notin DOMAIN RoomPathTemplate
    /\ obs.evt.Redacts # <<>> /\ DOMAIN roomState # {} /\ NoStorageRequest

---------------------------------------------------------------------------
\* The file label as the last segment of the rendered path

\* "/m/u", the rendering of the directory part of the room's template for
\* the user "u", and the directories EnsureDirectories creates for an
\* upload below it
UserDirectory == <<Slash, 109, Slash, 117>>
DirectoriesBelow == EnsureDirectories(UserDirectory \o <<Slash, 97>>, {}, FALSE).cache

\* a file label without placeholder text was sanitized and rendered into
\* the room's template
LabelRendered ==
    /\ pSan /\ pPhase \in {"once", "twice"}
    /\ pIn.template = RoomPathTemplate[RoomID]
    /\ pIn.user = <<117>> /\ pIn.file \in LabelPool

\* C39: the path rendered from sanitized labels into a template that ends
\* in /${file} has the sanitized file label as its last segment and the
\* rendering of the template's directory part as its parent, and is none of
\* the directories EnsureDirectories creates for uploads.
C39_FileIsLastSegment ==
    LabelRendered =>
        /\ PathBase(pFirst) = pLabel.file
        /\ PathDir(pFirst) = UserDirectory
        /\ StorageKey(pFirst) \notin DirectoriesBelow

\* the file label "." was rendered: the path is the user's directory
DotRendersDirectory ==
    /\ LabelRendered /\ pIn.file = <<Dot>> /\ pLabel.file = <<Dot>>
    /\ pFirst = UserDirectory
    /\ StorageKey(pFirst) \in DirectoriesBelow

\* every other file label is rendered as the last segment below the user's
\* directory
OtherLabelsBelow ==
    (LabelRendered /\ pLabel.file # <<Dot>>) =>
        pFirst = UserDirectory \o <<Slash>> \o pLabel.file
====
